---- MODULE Spec2Model ----
(***************************************************************************)
(* The routing, caching and persistence core of the call-centre ticket     *)
(* classifier (src/ia_agent): the complexity scorer, the threshold router, *)
(* the in-memory TTL cache, the conversation store and the /predict,       *)
(* /analyze, /config/threshold and cache-management handlers of api.py.    *)
(*                                                                         *)
(* A text is the sequence of its characters, each character a string; an   *)
(* accented character is written by its name ("e_acute").  Scores that     *)
(* the code computes in floating point are kept exact, in hundredths.      *)
(***************************************************************************)
EXTENDS Integers, Sequences, FiniteSets, TLC

(***************************************************************************)
(* Characters and the string operations of Python the code relies on.      *)
(***************************************************************************)

\* The absent value (Python's None, a field missing from the request).
None == <<"None">>

UpperLetters ==
  <<"A","B","C","D","E","F","G","H","I","J","K","L","M","N","O","P","Q","R",
    "S","T","U","V","W","X","Y","Z","E_acute","E_grave","A_grave","U_grave">>

LowerLetters ==
  <<"a","b","c","d","e","f","g","h","i","j","k","l","m","n","o","p","q","r",
    "s","t","u","v","w","x","y","z","e_acute","e_grave","a_grave","u_grave">>

Digits == {"0","1","2","3","4","5","6","7","8","9"}

\* str.lower() on one character.
LowerChar(c) ==
  IF \E i \in 1..Len(UpperLetters) : UpperLetters[i] = c
  THEN LowerLetters[CHOOSE i \in 1..Len(UpperLetters) : UpperLetters[i] = c]
  ELSE c

\* str.lower()
Lower(s) == [i \in 1..Len(s) |-> LowerChar(s[i])]

\* The characters str.strip() and str.split() treat as whitespace.
IsSpace(c) == c \in {" ", "\t", "\n", "\r"}

\* A character the regular expressions' \w matches (a letter, a digit, "_").
IsWordChar(c) ==
  \/ c \in Digits
  \/ c = "_"
  \/ \E i \in 1..Len(UpperLetters) : c = UpperLetters[i] \/ c = LowerLetters[i]
  \/ c \in {"e_circ","a_circ","c_cedil","i_circ","o_circ","u_circ"}

RECURSIVE LStrip(_)
LStrip(s) == IF s # <<>> /\ IsSpace(Head(s)) THEN LStrip(Tail(s)) ELSE s

RECURSIVE RStrip(_)
RStrip(s) ==
  IF s # <<>> /\ IsSpace(s[Len(s)]) THEN RStrip(SubSeq(s, 1, Len(s) - 1)) ELSE s

\* str.strip()
Strip(s) == RStrip(LStrip(s))

\* str.split(): the maximal runs of non-whitespace characters, in order.
RECURSIVE SplitFrom(_, _, _)
SplitFrom(s, cur, acc) ==
  IF s = <<>> THEN (IF cur = <<>> THEN acc ELSE Append(acc, cur))
  ELSE IF IsSpace(Head(s))
       THEN SplitFrom(Tail(s), <<>>, IF cur = <<>> THEN acc ELSE Append(acc, cur))
       ELSE SplitFrom(Tail(s), Append(cur, Head(s)), acc)

Split(s) == SplitFrom(s, <<>>, <<>>)

\* Whether p occurs in s at position i.
MatchAt(s, p, i) == i + Len(p) - 1 <= Len(s) /\ SubSeq(s, i, i + Len(p) - 1) = p

\* Python's "p in s" for strings.
Contains(s, p) == \E i \in 1..(Len(s) + 1) : MatchAt(s, p, i)

\* len(re.findall(r'[...]', s)): the characters of s in the class.
CountChars(s, class) == Cardinality({i \in 1..Len(s) : s[i] \in class})

\* len(re.findall(r'[...]+', s)): the maximal runs of characters of the class.
CountRuns(s, class) ==
  Cardinality({i \in 1..Len(s) : s[i] \in class /\ (i = 1 \/ s[i-1] \notin class)})

\* The regular expressions' \b at position i (between s[i-1] and s[i]).
WordBoundary(s, i) ==
  LET before == i > 1 /\ i - 1 <= Len(s) /\ IsWordChar(s[i-1])
      after  == i >= 1 /\ i <= Len(s) /\ IsWordChar(s[i])
  IN  before # after

\* The alternatives of \b(a1|a2|...)\b that match at position i.
AltsAt(s, alts, i) ==
  {k \in 1..Len(alts) : /\ MatchAt(s, alts[k], i)
                        /\ WordBoundary(s, i)
                        /\ WordBoundary(s, i + Len(alts[k]))}

\* len(re.findall(r'\b(a1|a2|...)\b', s)): leftmost matches, the first
\* alternative that matches wins, the scan resumes after the match.
RECURSIVE CountWordMatches(_, _, _)
CountWordMatches(s, alts, i) ==
  IF i > Len(s) THEN 0
  ELSE IF AltsAt(s, alts, i) = {} THEN CountWordMatches(s, alts, i + 1)
       ELSE LET k == CHOOSE k \in AltsAt(s, alts, i) :
                       \A j \in AltsAt(s, alts, i) : k <= j
            IN  1 + CountWordMatches(s, alts, i + Len(alts[k]))

Min(a, b) == IF a <= b THEN a ELSE b

Max(a, b) == IF a >= b THEN a ELSE b

(***************************************************************************)
(* ComplexityAnalyzer (complexity_analyzer.py).                            *)
(***************************************************************************)

\* ComplexityAnalyzer.TECHNICAL_KEYWORDS, each keyword as its sequence of characters
TECHNICAL_KEYWORDS ==
  {
    <<"o","r","d","i","n","a","t","e","u","r">>,
    <<"e_acute","c","r","a","n">>,
    <<"c","l","a","v","i","e","r">>,
    <<"s","o","u","r","i","s">>,
    <<"i","m","p","r","i","m","a","n","t","e">>,
    <<"s","e","r","v","e","u","r">>,
    <<"d","i","s","q","u","e">>,
    <<"r","a","m">>,
    <<"p","r","o","c","e","s","s","e","u","r">>,
    <<"c","a","r","t","e">>,
    <<"c","a_circ","b","l","e">>,
    <<"p","e_acute","r","i","p","h","e_acute","r","i","q","u","e">>,
    <<"l","o","g","i","c","i","e","l">>,
    <<"a","p","p","l","i","c","a","t","i","o","n">>,
    <<"s","y","s","t","e_grave","m","e">>,
    <<"p","r","o","g","r","a","m","m","e">>,
    <<"b","a","s","e"," ","d","e"," ","d","o","n","n","e_acute","e","s">>,
    <<"m","i","s","e"," ","a_grave"," ","j","o","u","r">>,
    <<"i","n","s","t","a","l","l","a","t","i","o","n">>,
    <<"c","o","n","f","i","g","u","r","a","t","i","o","n">>,
    <<"p","a","r","a","m","e_grave","t","r","e">>,
    <<"r","e_acute","s","e","a","u">>,
    <<"c","o","n","n","e","x","i","o","n">>,
    <<"w","i","f","i">>,
    <<"i","n","t","e","r","n","e","t">>,
    <<"v","p","n">>,
    <<"f","i","r","e","w","a","l","l">>,
    <<"p","r","o","x","y">>,
    <<"d","n","s">>,
    <<"r","o","u","t","e","u","r">>,
    <<"s","w","i","t","c","h">>,
    <<"p","o","r","t">>,
    <<"m","o","t"," ","d","e"," ","p","a","s","s","e">>,
    <<"a","c","c","e_grave","s">>,
    <<"d","r","o","i","t","s">>,
    <<"p","e","r","m","i","s","s","i","o","n">>,
    <<"c","o","m","p","t","e">>,
    <<"a","u","t","h","e","n","t","i","f","i","c","a","t","i","o","n">>,
    <<"s","e_acute","c","u","r","i","t","e_acute">>,
    <<"t","o","k","e","n">>,
    <<"c","e","r","t","i","f","i","c","a","t">>,
    <<"c","o","n","g","e_acute">>,
    <<"a","b","s","e","n","c","e">>,
    <<"s","a","l","a","i","r","e">>,
    <<"f","o","r","m","a","t","i","o","n">>,
    <<"c","o","n","t","r","a","t">>,
    <<"b","a","d","g","e">>,
    <<"h","o","r","a","i","r","e">>,
    <<"p","o","i","n","t","a","g","e">>,
    <<"r","h">>,
    <<"b","u","g">>,
    <<"e","r","r","e","u","r">>,
    <<"p","r","o","b","l","e_grave","m","e">>,
    <<"i","n","c","i","d","e","n","t">>,
    <<"t","i","c","k","e","t">>,
    <<"s","u","p","p","o","r","t">>,
    <<"m","a","i","n","t","e","n","a","n","c","e">>,
    <<"d","e_acute","p","a","n","n","a","g","e">>
  }

\* ComplexityAnalyzer.COMPLEX_STRUCTURE_WORDS
COMPLEX_STRUCTURE_WORDS ==
  {
    <<"c","e","p","e","n","d","a","n","t">>,
    <<"n","e_acute","a","n","m","o","i","n","s">>,
    <<"t","o","u","t","e","f","o","i","s">>,
    <<"e","n"," ","r","e","v","a","n","c","h","e">>,
    <<"m","a","l","g","r","e_acute">>,
    <<"b","i","e","n"," ","q","u","e">>,
    <<"q","u","o","i","q","u","e">>,
    <<"a_grave"," ","c","o","n","d","i","t","i","o","n"," ","q","u","e">>,
    <<"p","o","u","r","v","u"," ","q","u","e">>,
    <<"a","f","i","n"," ","q","u","e">>,
    <<"d","e"," ","s","o","r","t","e"," ","q","u","e">>,
    <<"a","i","n","s","i"," ","q","u","e">>,
    <<"t","a","n","d","i","s"," ","q","u","e">>,
    <<"a","l","o","r","s"," ","q","u","e">>,
    <<"d","e_grave","s"," ","l","o","r","s"," ","q","u","e">>
  }

\* the interrogative substrings of _analyze_ambiguity
QuestionWords ==
  {
    <<"c","o","m","m","e","n","t">>,
    <<"p","o","u","r","q","u","o","i">>,
    <<"q","u","o","i">>,
    <<"o","u_grave">>,
    <<"q","u","a","n","d">>,
    <<"q","u","e","l">>
  }

\* the alternatives of the negation pattern, in the pattern's order
NegationWords ==
  <<
    <<"n","e">>,
    <<"n","'">>,
    <<"p","a","s">>,
    <<"j","a","m","a","i","s">>,
    <<"r","i","e","n">>,
    <<"a","u","c","u","n">>,
    <<"p","e","r","s","o","n","n","e">>
  >>

\* the alternatives of the condition pattern, in the pattern's order
ConditionWords ==
  <<
    <<"s","i">>,
    <<"s","a","u","f">>,
    <<"e","x","c","e","p","t","e_acute">>,
    <<"a_grave"," ","c","o","n","d","i","t","i","o","n">>,
    <<"e","n"," ","c","a","s">>
  >>

\* the alternatives of the uncertainty pattern, in the pattern's order
UncertaintyWords ==
  <<
    <<"p","e","u","t","-","e_circ","t","r","e">>,
    <<"p","r","o","b","a","b","l","e","m","e","n","t">>,
    <<"p","o","s","s","i","b","l","e","m","e","n","t">>,
    <<"s","e","m","b","l","e">>,
    <<"p","a","r","a","i_circ","t">>
  >>

\* _analyze_length, in hundredths of a point.
analyze_length(text) ==
  LET word_count == Len(Split(text))
  IN  IF word_count < 5 THEN 1000
      ELSE IF word_count < 15 THEN 2000 + (word_count - 5) * 200
      ELSE IF word_count < 30 THEN 4000 + (word_count - 15) * 133
      ELSE IF word_count < 50 THEN 6000 + (word_count - 30) * 100
      ELSE Min(10000, 8000 + (word_count - 50) * 50)

\* A variant of _analyze_vocabulary that does not cap the score at 100.
analyze_vocabulary_unclamped(text) ==
  LET words == Split(text)
      technical_count ==
        Cardinality({i \in 1..Len(words) :
                       \E keyword \in TECHNICAL_KEYWORDS : Contains(words[i], keyword)})
      dense == Len(words) > 0 /\ 10 * technical_count > 3 * Len(words)
      base_score == IF technical_count = 0 THEN 20
                    ELSE IF technical_count <= 2 THEN 40
                    ELSE IF technical_count <= 4 THEN 60
                    ELSE 80 + Min(20, technical_count * 2)
  IN  IF dense THEN base_score + 10 ELSE base_score

\* _analyze_vocabulary, in points.
analyze_vocabulary(text) ==
  LET words == Split(text)
      technical_count ==
        Cardinality({i \in 1..Len(words) :
                       \E keyword \in TECHNICAL_KEYWORDS : Contains(words[i], keyword)})
      \* tech_ratio > 0.3, with tech_ratio = technical_count / len(words)
      dense == Len(words) > 0 /\ 10 * technical_count > 3 * Len(words)
      base_score == IF technical_count = 0 THEN 20
                    ELSE IF technical_count <= 2 THEN 40
                    ELSE IF technical_count <= 4 THEN 60
                    ELSE 80 + Min(20, technical_count * 2)
  IN  Min(100, IF dense THEN base_score + 10 ELSE base_score)

\* _analyze_structure, in points.
analyze_structure(text) ==
  LET sentence_count == CountRuns(text, {".", "!", "?"})
      complex_punct == CountChars(text, {",", ";", ":", "(", ")", "laquo", "raquo", "\""})
      complex_words == Cardinality({w \in COMPLEX_STRUCTURE_WORDS : Contains(text, w)})
      base_score == IF sentence_count <= 1 THEN 20
                    ELSE IF sentence_count = 2 THEN 40
                    ELSE IF sentence_count = 3 THEN 60
                    ELSE 70 + Min(30, sentence_count * 5)
      punct_bonus == Min(20, complex_punct * 3)
      structure_bonus == Min(15, complex_words * 10)
  IN  Min(100, base_score + punct_bonus + structure_bonus)

\* _analyze_ambiguity, in points.
analyze_ambiguity(text) ==
  LET question == Contains(text, <<"?">>) \/ \E q \in QuestionWords : Contains(text, q)
      negations == CountWordMatches(text, NegationWords, 1)
      conditions == CountWordMatches(text, ConditionWords, 1)
      uncertainties == CountWordMatches(text, UncertaintyWords, 1)
  IN  Min(100, 10 + (IF question THEN 40 ELSE 0) + Min(30, negations * 15)
                  + Min(30, conditions * 20) + Min(20, uncertainties * 15))

\* int(round(x)) for x = n / 10000 >= 0: Python rounds a half to the even side.
RoundHalfEven(n) ==
  LET q == n \div 10000
      r == n % 10000
  IN  IF r > 5000 THEN q + 1
      ELSE IF r < 5000 THEN q
      ELSE IF q % 2 = 0 THEN q ELSE q + 1

\* The weighted global score of analyze, from the four sub-scores (the length
\* score in hundredths): int(round(min(100, max(0, global_score)))).
global_score_of(length_score, vocab_score, structure_score, ambiguity_score) ==
  RoundHalfEven(Min(1000000, Max(0, 25 * length_score + 3500 * vocab_score
                                    + 2500 * structure_score + 1500 * ambiguity_score)))

\* The result of analyze for the cleaned text and its four sub-scores.
analysis_result(text_clean, length_score, vocab_score, structure_score, ambiguity_score) ==
  [score |-> global_score_of(length_score, vocab_score, structure_score,
                             ambiguity_score),
   details |-> [length_score |-> length_score,
                vocabulary_score |-> vocab_score,
                structure_score |-> structure_score,
                ambiguity_score |-> ambiguity_score,
                text_length |-> Len(text_clean),
                word_count |-> Len(Split(text_clean))]]

\* analyze, once the text is lowered and stripped.
analyze_clean(text_clean) ==
  analysis_result(text_clean, analyze_length(text_clean),
                  analyze_vocabulary(text_clean), analyze_structure(text_clean),
                  analyze_ambiguity(text_clean))

\* ComplexityAnalyzer.analyze: the global score and the breakdown.
analyze(text) ==
  IF text = None \/ text = <<>> \/ Strip(text) = <<>>
  THEN [score |-> 0, details |-> [error |-> "Texte vide"]]
  ELSE analyze_clean(Strip(Lower(text)))

\* "rh": one technical word, scored 26.
TextRh == <<"r","h">>

\* "ne rh?": a negation and a question about a technical word, scored 35.
TextNeRh == <<"n","e"," ","r","h","?">>

ValidTexts == {TextRh, TextNeRh}

\* The analyses of the texts of the model.
AnalysisRh == analyze(TextRh)

AnalysisNeRh == analyze(TextNeRh)

(***************************************************************************)
(* IntelligentAgent (intelligent_agent.py).                                *)
(***************************************************************************)

\* IntelligentAgent.THRESHOLDS
THRESHOLDS_simple == 30

THRESHOLDS_medium == 60

\* IntelligentAgent.MODEL_MAPPING[level]['name']
MODEL_MAPPING(level) ==
  CASE level = "simple" -> "distilbert"
    [] level = "medium" -> "bert-base"
    [] OTHER -> "gpt-llm"

\* api.py constructs IntelligentAgent(use_distilbert_for_all=False).
use_distilbert_for_all == FALSE

\* dict.get(field, default) on the analysis details.
DetailGet(details, field, default) ==
  IF field \in DOMAIN details THEN details[field] ELSE default

\* IntelligentAgent.__init__: the usage counters.
InitialStats ==
  [total_requests |-> 0,
   by_model |-> [m \in {"distilbert", "bert-base", "gpt-llm"} |-> 0],
   by_complexity |-> [l \in {"simple", "medium", "complex"} |-> 0]]

\* A variant of _update_stats that does not count the complexity level.
update_stats_unlevelled(stats, model, level) ==
  [total_requests |-> stats.total_requests + 1,
   by_model |-> [stats.by_model EXCEPT ![model] = @ + 1],
   by_complexity |-> stats.by_complexity]

\* IntelligentAgent._update_stats
update_stats(stats, model, level) ==
  [total_requests |-> stats.total_requests + 1,
   by_model |-> [stats.by_model EXCEPT ![model] = @ + 1],
   by_complexity |-> [stats.by_complexity EXCEPT ![level] = @ + 1]]

\* IntelligentAgent._generate_reasoning: the parts the explanation is joined
\* from (the level and score, the word count for a medium text, the two optional
\* remarks, the model named), and the suffix the caller appends to it.
generate_reasoning(score, level, details) ==
  [level |-> level,
   score |-> score,
   word_count |-> IF level = "medium" THEN DetailGet(details, "word_count", 0) ELSE 0,
   technical |-> DetailGet(details, "vocabulary_score", 0) > 70,
   structured |-> DetailGet(details, "structure_score", 0) > 70,
   model |-> MODEL_MAPPING(level),
   suffix |-> <<>>]

\* self.analyzer.analyze(text): the scorer is a pure function, so the analyses
\* of the texts the model sends are computed once.
analyzer_analyze(text) ==
  CASE text = TextRh -> AnalysisRh
    [] text = TextNeRh -> AnalysisNeRh
    [] OTHER -> analyze(text)

\* The complexity level route derives from the score.
complexity_level_of(complexity_score) ==
  IF complexity_score < THRESHOLDS_simple THEN "simple"
  ELSE IF complexity_score < THRESHOLDS_medium THEN "medium"
  ELSE "complex"

\* route, once the level and the model are chosen.
route_result(stats, analysis, complexity_level, selected_model) ==
  [result |-> [model |-> selected_model,
               complexity_score |-> analysis.score,
               complexity_level |-> complexity_level,
               details |-> analysis.details,
               reasoning |->
                 IF use_distilbert_for_all
                 THEN [level |-> "distilbert-only", score |-> 0, word_count |-> 0,
                       technical |-> FALSE, structured |-> FALSE,
                       model |-> "distilbert", suffix |-> <<>>]
                 ELSE generate_reasoning(analysis.score, complexity_level,
                                         analysis.details)],
   stats |-> update_stats(stats, selected_model, complexity_level)]

\* route, once the text is analysed.
route_analysis(stats, analysis, complexity_level) ==
  route_result(stats, analysis, complexity_level,
               IF use_distilbert_for_all THEN "distilbert"
               ELSE MODEL_MAPPING(complexity_level))

\* route, once the analyzer has answered.
route_scored(stats, analysis) ==
  route_analysis(stats, analysis, complexity_level_of(analysis.score))

\* IntelligentAgent.route: the routing result and the counters after it.  The
\* last statement logs text[:50], which raises TypeError for an absent text,
\* after the counters were updated.
route(text, stats) ==
  LET routed == route_scored(stats, analyzer_analyze(text))
  IN  [raised |-> text = None, result |-> routed.result, stats |-> routed.stats]

(***************************************************************************)
(* CacheManager (cache_manager.py).  The cache maps a key to its entry;    *)
(* hashlib.md5 is taken to be injective, so a key is the hashed string.    *)
(***************************************************************************)

\* Python's truth value of an Optional[str].
Truthy(s) == s # None /\ s # <<>>

\* A variant of _generate_key that leaves the text out of the key.
generate_key_textless(text, model) ==
  IF Truthy(model) THEN <<":">> \o model ELSE <<>>

\* CacheManager._generate_key
generate_key(text, model) ==
  IF Truthy(model) THEN text \o <<":">> \o model ELSE text

\* The payload of a lookup that found nothing.
NoData == [missing |-> TRUE]

\* A variant of CacheManager.get that leaves the hit counter alone.
CacheManager_get_uncounted(cache, text, model, now) ==
  LET key == generate_key(text, model)
  IN  IF key \notin DOMAIN cache
      THEN [hit |-> FALSE, data |-> NoData, cache |-> cache]
      ELSE IF now > cache[key].expires_at
      THEN [hit |-> FALSE, data |-> NoData,
            cache |-> [k \in DOMAIN cache \ {key} |-> cache[k]]]
      ELSE [hit |-> TRUE, data |-> cache[key].data,
            cache |-> [cache EXCEPT ![key].last_accessed = now]]

\* A variant of CacheManager.get that misses on an expired entry without
\* deleting it.
CacheManager_get_keeping_expired(cache, text, model, now) ==
  LET key == generate_key(text, model)
  IN  IF key \notin DOMAIN cache
      THEN [hit |-> FALSE, data |-> NoData, cache |-> cache]
      ELSE IF now > cache[key].expires_at
      THEN [hit |-> FALSE, data |-> NoData, cache |-> cache]
      ELSE [hit |-> TRUE, data |-> cache[key].data,
            cache |-> [cache EXCEPT ![key].hits = @ + 1,
                                    ![key].last_accessed = now]]

\* A variant of CacheManager.get whose hit also pushes the expiry back.
CacheManager_get_sliding(cache, text, model, now) ==
  LET key == generate_key(text, model)
  IN  IF key \notin DOMAIN cache
      THEN [hit |-> FALSE, data |-> NoData, cache |-> cache]
      ELSE IF now > cache[key].expires_at
      THEN [hit |-> FALSE, data |-> NoData,
            cache |-> [k \in DOMAIN cache \ {key} |-> cache[k]]]
      ELSE [hit |-> TRUE, data |-> cache[key].data,
            cache |-> [cache EXCEPT ![key].hits = @ + 1,
                                    ![key].last_accessed = now,
                                    ![key].expires_at = @ + 1]]

\* A variant of CacheManager.get that never finds an entry.
CacheManager_get_never(cache, text, model, now) ==
  [hit |-> FALSE, data |-> NoData, cache |-> cache]

\* CacheManager.get: whether the lookup hit, the payload, and the cache after it.
CacheManager_get(cache, text, model, now) ==
  LET key == generate_key(text, model)
  IN  IF key \notin DOMAIN cache
      THEN [hit |-> FALSE, data |-> NoData, cache |-> cache]
      ELSE IF now > cache[key].expires_at
      THEN [hit |-> FALSE, data |-> NoData,
            cache |-> [k \in DOMAIN cache \ {key} |-> cache[k]]]
      ELSE [hit |-> TRUE, data |-> cache[key].data,
            cache |-> [cache EXCEPT ![key].hits = @ + 1,
                                    ![key].last_accessed = now]]

\* A variant of CacheManager.set that keeps the hit counter of an entry it
\* replaces.
CacheManager_set_keeping_hits(cache, text, data, model, now, ttl) ==
  LET key == generate_key(text, model)
      entry == [data |-> data,
                created_at |-> now,
                expires_at |-> now + ttl,
                last_accessed |-> now,
                hits |-> IF key \in DOMAIN cache THEN cache[key].hits ELSE 0]
  IN  [k \in DOMAIN cache \cup {key} |-> IF k = key THEN entry ELSE cache[k]]

\* CacheManager.set
CacheManager_set(cache, text, data, model, now, ttl) ==
  LET key == generate_key(text, model)
      entry == [data |-> data,
                created_at |-> now,
                expires_at |-> now + ttl,
                last_accessed |-> now,
                hits |-> 0]
  IN  [k \in DOMAIN cache \cup {key} |-> IF k = key THEN entry ELSE cache[k]]

\* A variant of CacheManager.clear that counts the entries and removes none.
CacheManager_clear_keeping(cache) ==
  [count |-> Cardinality(DOMAIN cache), cache |-> cache]

\* CacheManager.clear: the number of entries removed and the cache after it.
CacheManager_clear(cache) ==
  [count |-> Cardinality(DOMAIN cache), cache |-> <<>>]

\* A variant of CacheManager.cleanup_expired that removes the first expired
\* entry it finds and stops.
CacheManager_cleanup_expired_once(cache, now) ==
  LET expired_keys == {k \in DOMAIN cache : now > cache[k].expires_at}
      first == IF expired_keys = {} THEN {}
               ELSE {CHOOSE k \in expired_keys : TRUE}
  IN  [count |-> Cardinality(first),
       cache |-> [k \in DOMAIN cache \ first |-> cache[k]]]

\* CacheManager.cleanup_expired
CacheManager_cleanup_expired(cache, now) ==
  LET expired_keys == {k \in DOMAIN cache : now > cache[k].expires_at}
  IN  [count |-> Cardinality(expired_keys),
       cache |-> [k \in DOMAIN cache \ expired_keys |-> cache[k]]]

(***************************************************************************)
(* ConversationStore (cache_manager.py): the conversations table.          *)
(***************************************************************************)

\* A variant of save_conversation that keeps no row but the new one.
save_conversation_truncating(store, session_id, input_text, prediction, model_used, complexity_score, complexity_level, probabilities, response_time, generated_response, conversation_title, now, reachable) ==
  [raised |-> FALSE,
   store |-> [rows |-> <<[id |-> store.last_id + 1,
                          session_id |-> session_id,
                          conversation_title |-> conversation_title,
                          timestamp |-> now,
                          input_text |-> input_text,
                          prediction |-> prediction,
                          model_used |-> model_used,
                          complexity_score |-> complexity_score,
                          complexity_level |-> complexity_level,
                          response_time |-> response_time,
                          generated_response |-> generated_response,
                          probabilities |-> probabilities]>>,
              last_id |-> store.last_id + 1]]

\* A variant of save_conversation that returns without inserting the row.
save_conversation_lost(store, session_id, input_text, prediction, model_used, complexity_score, complexity_level, probabilities, response_time, generated_response, conversation_title, now, reachable) ==
  [raised |-> FALSE, store |-> store]

\* ConversationStore.save_conversation: the INSERT raises when the store is
\* unreachable or a NOT NULL column (prediction) receives no value.
save_conversation(store, session_id, input_text, prediction, model_used, complexity_score, complexity_level, probabilities, response_time, generated_response, conversation_title, now, reachable) ==
  IF ~reachable \/ prediction = None
  THEN [raised |-> TRUE, store |-> store]
  ELSE [raised |-> FALSE,
        store |-> [rows |-> Append(store.rows,
                              [id |-> store.last_id + 1,
                               session_id |-> session_id,
                               conversation_title |-> conversation_title,
                               timestamp |-> now,
                               input_text |-> input_text,
                               prediction |-> prediction,
                               model_used |-> model_used,
                               complexity_score |-> complexity_score,
                               complexity_level |-> complexity_level,
                               response_time |-> response_time,
                               generated_response |-> generated_response,
                               probabilities |-> probabilities]),
                   last_id |-> store.last_id + 1]]

\* The WHERE clause of ConversationStore.get_session_history: the rows saved
\* under the session id.
SessionRows(store, session_id) ==
  SelectSeq(store.rows, LAMBDA r : r.session_id = session_id)

\* The number of conversations GET /history/{session_id} reports for a limit.
history_count(store, session_id, limit) ==
  Min(limit, Len(SessionRows(store, session_id)))

\* The default limit of GET /history/{session_id}.
HistoryLimit == 50


(***************************************************************************)
(* The read operations of the cache, the store and the router.             *)
(***************************************************************************)

\* The sum of the values a function takes on a finite set of its keys.
RECURSIVE SumOver(_, _)
SumOver(f, keys) ==
  IF keys = {}
  THEN 0
  ELSE LET k == CHOOSE x \in keys : TRUE
       IN  f[k] + SumOver(f, keys \ {k})

\* round(n / d) for n >= 0 and d > 0: Python rounds a half to the even side.
RoundRatio(n, d) ==
  LET q == n \div d
      r == n % d
  IN  IF 2 * r > d THEN q + 1
      ELSE IF 2 * r < d THEN q
      ELSE IF q % 2 = 0 THEN q ELSE q + 1

\* A variant of CacheManager.get_stats that counts every stored entry as active.
CacheManager_get_stats_unexpired(cache, now, ttl) ==
  [total_entries |-> Cardinality(DOMAIN cache),
   active_entries |-> Cardinality(DOMAIN cache),
   expired_entries |-> 0,
   total_hits |-> SumOver([k \in DOMAIN cache |-> cache[k].hits], DOMAIN cache),
   cache_ttl |-> ttl]

\* CacheManager.get_stats (memory_usage_mb, an estimate of the size of the
\* payloads, is left out).
CacheManager_get_stats(cache, now, ttl) ==
  LET total_entries == Cardinality(DOMAIN cache)
      expired_entries ==
        Cardinality({k \in DOMAIN cache : now > cache[k].expires_at})
      total_hits == SumOver([k \in DOMAIN cache |-> cache[k].hits], DOMAIN cache)
  IN  [total_entries |-> total_entries,
       active_entries |-> total_entries - expired_entries,
       expired_entries |-> expired_entries,
       total_hits |-> total_hits,
       cache_ttl |-> ttl]

\* IntelligentAgent.get_stats: the percentages are in hundredths of a percent,
\* round(count / total * 100, 2).
agent_get_stats(stats) ==
  LET total == stats.total_requests
  IN  IF total = 0
      THEN [total_requests |-> 0]
      ELSE [total_requests |-> total,
            by_model |->
              [m \in DOMAIN stats.by_model |->
                 [count |-> stats.by_model[m],
                  percentage |-> RoundRatio(stats.by_model[m] * 10000, total)]],
            by_complexity |->
              [l \in DOMAIN stats.by_complexity |->
                 [count |-> stats.by_complexity[l],
                  percentage |-> RoundRatio(stats.by_complexity[l] * 10000, total)]]]

\* DB_TYPE: the two engines of ConversationStore.
DbTypes == {"sqlite", "postgresql"}

\* The timestamp of a row as get_session_history returns it: the column's text
\* under SQLite, datetime.isoformat() under PostgreSQL.
history_timestamp(db_type, timestamp) ==
  IF db_type = "postgresql"
  THEN [isoformat |-> timestamp]
  ELSE [text |-> timestamp]

\* One conversation of get_session_history, built from its row (the session id
\* is not among the fields returned).
history_entry(db_type, row) ==
  [id |-> row.id,
   timestamp |-> history_timestamp(db_type, row.timestamp),
   input_text |-> row.input_text,
   prediction |-> row.prediction,
   model_used |-> row.model_used,
   complexity_score |-> row.complexity_score,
   complexity_level |-> row.complexity_level,
   probabilities |-> row.probabilities,
   response_time |-> row.response_time,
   generated_response |-> row.generated_response,
   conversation_title |-> row.conversation_title]

\* ORDER BY timestamp DESC: the orders in which the engine may return the rows.
\* The query names no second sort key, so rows with equal timestamps come in
\* an order the engine chooses.
timestamp_desc_orders(rows) ==
  LET n == Len(rows)
  IN  {p \in [1..n -> 1..n] :
         /\ \A i, j \in 1..n : p[i] = p[j] => i = j
         /\ \A i \in 1..n - 1 : rows[p[i]].timestamp >= rows[p[i + 1]].timestamp}

\* ConversationStore.get_session_history: the lists the query may return,
\* WHERE session_id = ? ORDER BY timestamp DESC LIMIT ?.
get_session_history(db_type, store, session_id, limit) ==
  LET rows == SessionRows(store, session_id)
  IN  {[i \in 1..Min(limit, Len(rows)) |-> history_entry(db_type, rows[p[i]])] :
         p \in timestamp_desc_orders(rows)}

\* The rows of the trailing window of get_global_stats, timestamp >= date_limit.
window_rows(store, date_limit) ==
  SelectSeq(store.rows, LAMBDA r : r.timestamp >= date_limit)

\* A variant of count_by that counts each group once.
count_by_group(rows, column) ==
  [v \in {rows[i][column] : i \in 1..Len(rows)} |-> 1]

\* SELECT column, COUNT(*) ... GROUP BY column, as a dict.
count_by(rows, column) ==
  [v \in {rows[i][column] : i \in 1..Len(rows)} |->
     Cardinality({i \in 1..Len(rows) : rows[i][column] = v})]

\* A response time that is absent: NULL in the response_time column, None in
\* the statistics (a response time is a number of seconds otherwise, so the
\* absent one is written as a number no response time takes).
NullTime == -1

\* round(x, 3) if x else None, for x = n / d: in thousandths.
round3_or_none(n, d) ==
  IF d = 0 \/ n = 0 THEN NullTime ELSE RoundRatio(n * 1000, d)

\* The smallest and the largest number of a non-empty set.
SetMin(S) == CHOOSE x \in S : \A y \in S : x <= y

SetMax(S) == CHOOSE x \in S : \A y \in S : x >= y

\* ConversationStore.get_global_stats over the days before date_now: the
\* response times are in thousandths of a second, the average score in
\* hundredths; a day lasts day_ticks ticks of the clock.
get_global_stats(db_type, store, days, date_now, day_ticks) ==
  LET rows == window_rows(store, date_now - days * day_ticks)
      n == Len(rows)
      timed == {i \in 1..n : rows[i].response_time # NullTime}
      times == {rows[i].response_time : i \in timed}
      time_sum == SumOver([i \in 1..n |-> rows[i].response_time], timed)
      score_sum == SumOver([i \in 1..n |-> rows[i].complexity_score], 1..n)
  IN  [period_days |-> days,
       total_conversations |-> n,
       unique_sessions |-> Cardinality({rows[i].session_id : i \in 1..n}),
       model_distribution |-> count_by(rows, "model_used"),
       category_distribution |-> count_by(rows, "prediction"),
       response_time |->
         [avg |-> round3_or_none(time_sum, Cardinality(timed)),
          min |-> IF timed = {} THEN NullTime ELSE round3_or_none(SetMin(times), 1),
          max |-> IF timed = {} THEN NullTime ELSE round3_or_none(SetMax(times), 1)],
       avg_complexity_score |->
         IF n = 0 THEN 0 ELSE RoundRatio(score_sum * 100, n)]

\* ConversationStore.cleanup_old_conversations: it opens the SQLite file
\* whatever the engine, and db_path is None under PostgreSQL, so the call
\* raises there; under SQLite it deletes the rows older than the limit.
cleanup_old_conversations(db_type, store, days, date_now, day_ticks) ==
  LET date_limit == date_now - days * day_ticks
      kept == SelectSeq(store.rows, LAMBDA r : ~(r.timestamp < date_limit))
  IN  IF db_type # "sqlite"
      THEN [raised |-> TRUE, deleted_count |-> 0, store |-> store]
      ELSE [raised |-> FALSE,
            deleted_count |-> Len(store.rows) - Len(kept),
            store |-> [store EXCEPT !.rows = kept]]
(***************************************************************************)
(* The orchestrator (api.py).                                              *)
(***************************************************************************)

\* The back-end names _call_model knows.
TFIDF == <<"t","f","i","d","f">>

TRANSFORMER == <<"t","r","a","n","s","f","o","r","m","e","r">>

\* The labels and the probability map the classifiers of the model answer with.
Hardware == <<"H","a","r","d","w","a","r","e">>

Access == <<"A","c","c","e","s","s">>

SomeProbabilities == {<<Hardware, 90>>, <<Access, 10>>}

\* Python's "a or b" on Optional[str] values.
StrOr(a, b) == IF Truthy(a) THEN a ELSE b

\* dict.get(key, default) on a classifier's JSON reply.
ReplyGet(data, key, default) == IF key \in data.keys THEN data[key] ELSE default

\* str.upper() on one character, and str.capitalize().
UpperChar(c) ==
  IF \E i \in 1..Len(LowerLetters) : LowerLetters[i] = c
  THEN UpperLetters[CHOOSE i \in 1..Len(LowerLetters) : LowerLetters[i] = c]
  ELSE c

Capitalize(s) == IF s = <<>> THEN s ELSE <<UpperChar(Head(s))>> \o Lower(Tail(s))

\* An exception a handler lets escape, as the HTTP failure the caller sees.
HTTPException(status_code, kind, detail) ==
  [status |-> status_code, kind |-> kind, detail |-> detail, payload |-> NoData]

\* A successful response carrying its payload.
OkResponse(payload) ==
  [status |-> 200, kind |-> "ok", detail |-> <<>>, payload |-> payload]

\* A variant of text_must_not_be_empty that does not strip the text.
text_must_not_be_empty_unstripped(v) == v # <<>>

\* TextRequest.text_must_not_be_empty
text_must_not_be_empty(v) == ~(v = <<>> \/ Strip(v) = <<>>)

\* TextRequest: the field text is required and must pass its validator.
TextRequest_valid(request) ==
  request.text # None /\ text_must_not_be_empty(request.text)

\* generate_fallback_response: raises IndexError on an empty probability map
\* (top_predictions[0]).
generate_fallback_response(input_text, prediction, probabilities, model_used, complexity_score, complexity_level) ==
  IF probabilities = {}
  THEN [raised |-> TRUE, value |-> NoData]
  ELSE LET confidence == CHOOSE c \in {p[2] : p \in probabilities} :
                           \A p \in probabilities : p[2] <= c
       IN  [raised |-> FALSE,
            value |-> [source |-> "fallback",
                       text |-> <<>>,
                       prediction |-> prediction,
                       confidence |-> confidence,
                       model_used |-> model_used]]

\* generate_grok_response: the explanation (or the exception that escapes) and
\* whether the explanation service was called.  grok is the outcome of that call.
generate_grok_response(input_text, prediction, probabilities, model_used, complexity_score, complexity_level, USE_GROK, grok) ==
  LET fallback == generate_fallback_response(input_text, prediction, probabilities,
                    model_used, complexity_score, complexity_level)
  IN  IF ~USE_GROK
      THEN [raised |-> fallback.raised, value |-> fallback.value, called |-> FALSE]
      ELSE IF probabilities = {}
      \* top_predictions[0] raises before the call; the except clause calls the
      \* fallback, which raises again
      THEN [raised |-> fallback.raised, value |-> fallback.value, called |-> FALSE]
      ELSE IF grok.kind = "ok"
      THEN [raised |-> FALSE,
            value |-> [source |-> "grok",
                       text |-> Strip(grok.content),
                       prediction |-> None,
                       confidence |-> 0,
                       model_used |-> None],
            called |-> TRUE]
      \* a status other than 200, an exception of the call, a reply without
      \* choices[0].message.content
      ELSE [raised |-> fallback.raised, value |-> fallback.value, called |-> TRUE]

\* TFIDF_API_URL and TRANSFORMER_API_URL
TFIDF_API_URL == "http://tfidf-svm:8000/predict"

TRANSFORMER_API_URL == "http://callcenter:8000/classify"

\* The URL a back-end name selects in _call_model; its final branch raises.
NoUrl == "no url"

\* A variant of model_url that sends every unrecognised name to the TF-IDF
\* service instead of raising.
model_url_defaulting(model_name) ==
  IF model_name = TRANSFORMER THEN TRANSFORMER_API_URL ELSE TFIDF_API_URL

model_url(model_name) ==
  IF model_name = TFIDF THEN TFIDF_API_URL
  ELSE IF model_name = TRANSFORMER THEN TRANSFORMER_API_URL
  ELSE NoUrl

\* The fixed words of the details _call_model raises with.
UnknownModelPrefix ==
  <<"M","o","d","e_grave","l","e"," ","i","n","c","o","n","n","u",":"," ">>

ModelErrorPrefix ==
  <<"E","r","r","e","u","r"," ","d","u"," ","m","o","d","e_grave","l","e"," ">>

\* A variant of call_failure that reports every failure as the back-end being
\* unreachable.
call_failure_unreachable(model_name, outcome) ==
  HTTPException(503, "unreachable", model_name)

\* The except clauses of _call_model: the HTTPException raised for a call that
\* timed out, answered an error status, or failed otherwise.
call_failure(model_name, outcome) ==
  CASE outcome.kind = "timeout" -> HTTPException(504, "timeout", model_name)
    [] outcome.kind = "status" ->
         HTTPException(outcome.status, "upstream_error",
                       ModelErrorPrefix \o model_name \o <<":", " ">> \o outcome.body)
    [] OTHER -> HTTPException(503, "unreachable", model_name)

\* _call_model: the normalised classifier reply, or the HTTPException raised.
\* outcome is what the HTTP call to the back-end does.
call_model(model_name, text, outcome) ==
  IF model_url(model_name) = NoUrl
  THEN [raised |-> TRUE, called |-> FALSE,
        exc |-> HTTPException(400, "unknown_model", UnknownModelPrefix \o model_name),
        prediction |-> None, probabilities |-> {}]
  ELSE IF outcome.kind # "ok"
  THEN [raised |-> TRUE, called |-> TRUE, exc |-> call_failure(model_name, outcome),
        prediction |-> None, probabilities |-> {}]
  ELSE IF model_name = TFIDF
  THEN [raised |-> FALSE, called |-> TRUE, exc |-> NoData,
        prediction |-> ReplyGet(outcome.data.tfidf, "prediction", None),
        probabilities |-> ReplyGet(outcome.data.tfidf, "probabilities", {})]
  ELSE [raised |-> FALSE, called |-> TRUE, exc |-> NoData,
        prediction |->
          StrOr(ReplyGet(outcome.data.transformer, "predicted_category", None),
                ReplyGet(outcome.data.transformer, "prediction", None)),
        probabilities |->
          IF ReplyGet(outcome.data.transformer, "all_predictions", {}) # {}
          THEN ReplyGet(outcome.data.transformer, "all_predictions", {})
          ELSE ReplyGet(outcome.data.transformer, "probabilities", {})]

\* The title predict_with_routing stores with the conversation.
conversation_title_of(request) ==
  IF ~Truthy(request.conversation_title) \/ Strip(request.conversation_title) = <<>>
  THEN Capitalize(IF Len(request.text) > 40
                  THEN SubSeq(request.text, 1, 37) \o <<".", ".", ".">>
                  ELSE request.text)
  ELSE request.conversation_title

DigitSeq == <<"0","1","2","3","4","5","6","7","8","9">>

\* A variant of uuid4 that returns the same token every time.
uuid4_repeating(n) == <<"u","u","i","d","-","0","0">>

\* str(uuid.uuid4()): the n-th token the process generates (n < 100).
uuid4(n) == <<"u","u","i","d","-", DigitSeq[(n \div 10) + 1], DigitSeq[(n % 10) + 1]>>

\* PredictionResponse: the response model FastAPI validates the returned dict
\* against (prediction: str).
PredictionResponse_valid(payload) == payload.prediction # None

\* What the caller receives for a dict returned by predict_with_routing.
respond(payload) ==
  IF PredictionResponse_valid(payload)
  THEN OkResponse(payload)
  ELSE HTTPException(500, "response_validation", <<>>)

\* A variant of after_persist that lets the error of the write escape to the
\* handler's last except clause.
after_persist_raises(save_raised, resp) ==
  IF save_raised THEN HTTPException(500, "prediction_error", <<>>) ELSE resp

\* The except clauses around save_conversation: the error is logged and the
\* handler goes on to return its response.
after_persist(save_raised, resp) == resp

\* A variant of select_model that sends a score equal to the threshold to the
\* TF-IDF back-end.
select_model_inclusive(complexity_score, threshold) ==
  IF complexity_score <= threshold THEN TFIDF ELSE TRANSFORMER

\* The routing rule of predict_with_routing and analyze_complexity.
select_model(complexity_score, threshold) ==
  IF complexity_score < threshold THEN TFIDF ELSE TRANSFORMER

\* A variant of determine_model that applies the threshold to every request.
determine_model_routed(force_model, complexity_score, threshold) ==
  select_model(complexity_score, threshold)

\* predict_with_routing, step 3: the forced model, lower-cased, or the routed one.
determine_model(force_model, complexity_score, threshold) ==
  IF Truthy(force_model)
  THEN Lower(force_model)
  ELSE select_model(complexity_score, threshold)

\* A variant of cache_consulted that ignores the override.
cache_consulted_always(cache_enabled, request) == cache_enabled

\* The condition under which predict_with_routing reads and writes the cache.
cache_consulted(cache_enabled, request) ==
  cache_enabled /\ ~Truthy(request.force_model)

\* The downstream calls of one request: none.
NoCalls == [classifier |-> <<>>, grok |-> <<>>, db |-> <<>>]

\* A variant of the cache-hit branch that returns the cached payload under the
\* session id it was stored with.
predict_cache_hit_shared(request, session_id, lookup, store, stats, now, uuids, env) ==
  LET key == generate_key(request.text, None)
      cached_result == [lookup.data EXCEPT !.cache_hit = TRUE]
      cache1 == [lookup.cache EXCEPT ![key].data = cached_result]
      saved == save_conversation(store, cached_result.session_id, request.text,
                 cached_result.prediction, cached_result.model_used,
                 cached_result.complexity_analysis.score,
                 cached_result.complexity_analysis.level,
                 cached_result.probabilities, 0,
                 cached_result.generated_response,
                 conversation_title_of(request), now, env.db_reachable)
  IN  [resp |-> after_persist(saved.raised, respond(cached_result)),
       cache |-> cache1,
       store |-> saved.store,
       stats |-> stats,
       now |-> now,
       uuids |-> uuids,
       calls |-> [NoCalls EXCEPT !.db = <<IF saved.raised THEN "error" ELSE "ok">>],
       steps |-> <<"Persist">>]

\* predict_with_routing, the branch taken on a cache hit.  The dict the cache
\* returns is the one it stores, so the two assignments change the entry too.
predict_cache_hit(request, session_id, lookup, store, stats, now, uuids, env) ==
  LET key == generate_key(request.text, None)
      cached_result == [lookup.data EXCEPT !.session_id = session_id,
                                           !.cache_hit = TRUE]
      cache1 == [lookup.cache EXCEPT ![key].data = cached_result]
      saved == save_conversation(store, session_id, request.text,
                 cached_result.prediction, cached_result.model_used,
                 cached_result.complexity_analysis.score,
                 cached_result.complexity_analysis.level,
                 cached_result.probabilities, 0,
                 cached_result.generated_response,
                 conversation_title_of(request), now, env.db_reachable)
  IN  [resp |-> after_persist(saved.raised, respond(cached_result)),
       cache |-> cache1,
       store |-> saved.store,
       stats |-> stats,
       now |-> now,
       uuids |-> uuids,
       calls |-> [NoCalls EXCEPT !.db = <<IF saved.raised THEN "error" ELSE "ok">>],
       steps |-> <<"Persist">>]

\* predict_with_routing, steps 3 to 9, once the router has answered: classify,
\* explain, cache, persist.
predict_routed(request, session_id, use_cache, ttl, USE_GROK, cache, store, threshold, now, uuids, env, routed) ==
  LET routing_result == routed.result
      complexity_score == routing_result.complexity_score
      model_to_use == determine_model(request.force_model, complexity_score,
                                      threshold)
      prediction_result == call_model(model_to_use, request.text, env.clf)
      \* the request is served within one tick of the clock
      now1 == now
      clf_calls == IF prediction_result.called
                   THEN <<[model |-> model_to_use, outcome |-> env.clf]>>
                   ELSE <<>>
      prediction == prediction_result.prediction
      probabilities == prediction_result.probabilities
      generated == generate_grok_response(request.text, prediction, probabilities,
                     model_to_use, complexity_score,
                     routing_result.complexity_level, USE_GROK, env.grok)
      grok_calls == IF generated.called THEN <<env.grok>> ELSE <<>>
      response == [input |-> request.text,
                   prediction |-> prediction,
                   probabilities |-> probabilities,
                   model_used |-> model_to_use,
                   complexity_analysis |->
                     [score |-> complexity_score,
                      level |-> routing_result.complexity_level,
                      details |-> routing_result.details],
                   reasoning |-> [routing_result.reasoning
                                    EXCEPT !.suffix = [i \in 1..Len(model_to_use) |->
                                                         UpperChar(model_to_use[i])]],
                   generated_response |-> generated.value,
                   session_id |-> session_id,
                   cache_hit |-> FALSE]
      cache1 == IF use_cache
                THEN CacheManager_set(cache, request.text, response, None, now1, ttl)
                ELSE cache
      saved == save_conversation(store, session_id, request.text, prediction,
                 model_to_use, complexity_score, routing_result.complexity_level,
                 probabilities, env.elapsed, generated.value,
                 conversation_title_of(request), now1, env.db_reachable)
  IN  IF prediction_result.raised
      \* except HTTPException: raise
      THEN [resp |-> prediction_result.exc, cache |-> cache, store |-> store,
            stats |-> routed.stats, now |-> now1, uuids |-> uuids,
            calls |-> [NoCalls EXCEPT !.classifier = clf_calls],
            steps |-> <<"Route", "ClassifyCall">>]
      ELSE IF generated.raised
      \* except Exception as e: raise HTTPException(status_code=500, ...)
      THEN [resp |-> HTTPException(500, "prediction_error", <<>>), cache |-> cache,
            store |-> store, stats |-> routed.stats, now |-> now1, uuids |-> uuids,
            calls |-> [NoCalls EXCEPT !.classifier = clf_calls, !.grok = grok_calls],
            steps |-> <<"Route", "ClassifyCall", "GenerateExplanation">>]
      ELSE [resp |-> after_persist(saved.raised, respond(response)),
            cache |-> cache1,
            store |-> saved.store,
            stats |-> routed.stats,
            now |-> now1,
            uuids |-> uuids,
            calls |-> [classifier |-> clf_calls, grok |-> grok_calls,
                       db |-> <<IF saved.raised THEN "error" ELSE "ok">>],
            steps |-> <<"Route", "ClassifyCall", "GenerateExplanation">>
                        \o (IF use_cache THEN <<"CacheStore">> ELSE <<>>)
                        \o <<"Persist">>]

\* predict_with_routing, steps 2 to 9: route, then the rest.
predict_cache_miss(request, session_id, use_cache, ttl, USE_GROK, cache, store, stats, threshold, now, uuids, env) ==
  predict_routed(request, session_id, use_cache, ttl, USE_GROK, cache, store,
                 threshold, now, uuids, env, route(request.text, stats))

\* predict_with_routing: the response, the state after the request, the
\* downstream calls made for it and the steps of the handler it went through,
\* in the order of its statements.  env is what the collaborators do.
predict_with_routing(request, CACHE_ENABLED, ttl, USE_GROK, cache, store, stats, threshold, now, uuids, env) ==
  LET generated == ~Truthy(request.session_id)
      session_id == IF generated THEN uuid4(uuids + 1) ELSE request.session_id
      uuids1 == IF generated THEN uuids + 1 ELSE uuids
      use_cache == cache_consulted(CACHE_ENABLED, request)
      lookup == IF use_cache
                THEN CacheManager_get(cache, request.text, None, now)
                ELSE [hit |-> FALSE, data |-> NoData, cache |-> cache]
      out == IF lookup.hit
             THEN predict_cache_hit(request, session_id, lookup, store, stats, now,
                                    uuids1, env)
             ELSE predict_cache_miss(request, session_id, use_cache, ttl, USE_GROK,
                                     lookup.cache, store, stats, threshold, now,
                                     uuids1, env)
  IN  [out EXCEPT !.steps = (IF use_cache THEN <<"CacheLookup">> ELSE <<>>) \o @]

\* analyze_complexity, once the router has answered.
analyze_routed(request, threshold, routed) ==
  LET complexity_score == routed.result.complexity_score
      recommended_model == select_model(complexity_score, threshold)
  IN  [resp |-> OkResponse(
                  [text |-> IF Len(request.text) > 100
                            THEN SubSeq(request.text, 1, 100) \o <<".", ".", ".">>
                            ELSE request.text,
                   complexity_score |-> complexity_score,
                   complexity_level |-> routed.result.complexity_level,
                   recommended_model |-> recommended_model,
                   details |-> routed.result.details,
                   reasoning |-> routed.result.reasoning]),
       stats |-> routed.stats,
       calls |-> NoCalls]

\* A variant of analyze_complexity that also asks the recommended classifier.
analyze_complexity_classifying(request, stats, threshold) ==
  LET out == analyze_routed(request, threshold, route(request.text, stats))
  IN  [out EXCEPT !.calls.classifier =
                    <<[model |-> out.resp.payload.recommended_model,
                       outcome |-> NoData]>>]

\* analyze_complexity: the response, the router's counters after it and the
\* downstream calls made for it (none: the handler only calls agent.route).
analyze_complexity(request, stats, threshold) ==
  analyze_routed(request, threshold, route(request.text, stats))

\* A variant of update_threshold that rejects the two ends of the range.
update_threshold_exclusive(new_threshold, threshold) ==
  IF ~(0 < new_threshold /\ new_threshold < 100)
  THEN [resp |-> HTTPException(400, "threshold_range", <<>>),
        threshold |-> threshold]
  ELSE [resp |-> OkResponse([old_threshold |-> threshold,
                             new_threshold |-> new_threshold]),
        threshold |-> new_threshold]

\* update_threshold: the response and the threshold after it.
update_threshold(new_threshold, threshold) ==
  IF ~(0 <= new_threshold /\ new_threshold <= 100)
  THEN [resp |-> HTTPException(400, "threshold_range", <<>>),
        threshold |-> threshold]
  ELSE [resp |-> OkResponse([old_threshold |-> threshold,
                             new_threshold |-> new_threshold]),
        threshold |-> new_threshold]

(***************************************************************************)
(* The requests and the collaborators' behaviours the model draws from.    *)
(***************************************************************************)

\* The most requests to /predict and /analyze in one run of the model.
MaxRequests == 2

\* The most calls to the management and read endpoints (threshold, cache clear,
\* cache cleanup, history, statistics) in one run of the model.
MaxAdminCalls == 1

\* The clock stops at MaxTime.
MaxTime == 2

\* CACHE_TTL (3600 seconds by default), in clock ticks.
CACHE_TTL == 1

\* The ticks of the clock in one day.
TicksPerDay == 1

\* COMPLEXITY_THRESHOLD at start-up.
DefaultThreshold == 35

\* DB_TYPE, the engine of the store, when the environment names none.
DB_TYPE == "sqlite"

\* The window of the conversation statistics of GET /stats, in days.
StatsDays == 7

\* Missing, empty and whitespace-only texts.
InvalidTexts == {None, <<>>, <<" ">>}

ForceModels == {None, TFIDF, <<"T","r","a","n","s","f","o","r","m","e","r">>,
                <<"g","p","t">>}

SessionIds == {None, <<"s","1">>}

Titles == {None}

\* The request bodies: one text with and without a session id, a second text,
\* the first text with every override, and the bodies with no usable text.
Requests ==
  [text : {TextRh}, force_model : {None}, session_id : SessionIds,
   conversation_title : Titles]
  \cup [text : {TextNeRh}, force_model : {None}, session_id : {<<"s","1">>},
        conversation_title : Titles]
  \cup [text : {TextRh}, force_model : ForceModels \ {None},
        session_id : {<<"s","1">>}, conversation_title : Titles]
  \cup [text : InvalidTexts, force_model : {None}, session_id : {None},
        conversation_title : {None}]

\* The JSON replies of the classification back-ends: the TF-IDF service answers
\* {input, prediction, probabilities}, the Transformer service answers
\* {text, predicted_category, confidence, all_predictions}.
TfidfReply ==
  [keys |-> {"prediction", "probabilities"},
   prediction |-> Hardware, probabilities |-> SomeProbabilities]

TransformerReply ==
  [keys |-> {"predicted_category", "confidence", "all_predictions"},
   predicted_category |-> Access, confidence |-> 90,
   all_predictions |-> SomeProbabilities]

\* The same replies with an empty probability map.
TfidfBareReply ==
  [keys |-> {"prediction", "probabilities"},
   prediction |-> Hardware, probabilities |-> {}]

TransformerBareReply ==
  [keys |-> {"predicted_category", "confidence", "all_predictions"},
   predicted_category |-> Access, confidence |-> 90, all_predictions |-> {}]

NoReply == [keys |-> {}]

ErrorBody == <<"K","O">>

\* What the HTTP call to a classification back-end can do: answer (data is the
\* reply of each back-end), answer with an error status, time out, fail to connect.
ClassifierAnswers ==
  [kind |-> "ok", status |-> 200, body |-> <<>>,
   data |-> [tfidf |-> TfidfReply, transformer |-> TransformerReply]]

ClassifierAnswersBare ==
  [kind |-> "ok", status |-> 200, body |-> <<>>,
   data |-> [tfidf |-> TfidfBareReply, transformer |-> TransformerBareReply]]

ClassifierFailures ==
  {[kind |-> "status", status |-> 404, body |-> ErrorBody,
    data |-> [tfidf |-> NoReply, transformer |-> NoReply]],
   [kind |-> "timeout", status |-> 0, body |-> <<>>,
    data |-> [tfidf |-> NoReply, transformer |-> NoReply]],
   [kind |-> "network", status |-> 0, body |-> <<>>,
    data |-> [tfidf |-> NoReply, transformer |-> NoReply]]}

\* What the call to the explanation service can do: answer with a text, answer
\* with an error status, raise.
GrokAnswers == [kind |-> "ok", content |-> <<" ","G","."," ">>]

GrokOutcomes ==
  {GrokAnswers,
   [kind |-> "status", content |-> <<>>],
   [kind |-> "exception", content |-> <<>>]}

\* What the collaborators do during one request: the classifier, the
\* explanation service, the store, and the seconds the request takes.  After a
\* classifier failure or a reply with no probabilities the handler reaches
\* neither the explanation service nor the store, so one behaviour of those
\* stands for all.
Envs ==
  [clf : {ClassifierAnswers}, grok : GrokOutcomes, db_reachable : BOOLEAN,
   elapsed : {1}]
  \cup [clf : ClassifierFailures \cup {ClassifierAnswersBare}, grok : {GrokAnswers},
        db_reachable : {TRUE}, elapsed : {1}]

ThresholdInputs == {-1, 0, 100, 101}

\* The sessions GET /history is asked for: the caller's, the first generated
\* one, one that no request used.
HistorySessions == {<<"s","1">>, uuid4(1), <<"s","2">>}

HistoryLimits == {1, HistoryLimit}

(***************************************************************************)
(* The state of the service.                                               *)
(***************************************************************************)

VARIABLES
  cache,                 \* cache_manager.cache
  store,                 \* the conversations table and its id sequence
  stats,                 \* agent.stats
  COMPLEXITY_THRESHOLD,  \* the routing threshold
  now,                   \* the clock
  uuids,                 \* how many session ids the process has generated
  requests,              \* how many requests /predict and /analyze received
  admin_calls,           \* how many calls the management endpoints received
  CACHE_ENABLED,         \* configuration, read at start-up
  USE_GROK,              \* configuration: explanation service enabled with a key
  inflight,              \* the requests being served at once, each with its
                         \* handler's position and local variables
  last                   \* the last operation: request, response, downstream calls

vars ==
  <<cache, store, stats, COMPLEXITY_THRESHOLD, now, uuids, requests, admin_calls,
    CACHE_ENABLED, USE_GROK, inflight, last>>

Init ==
  /\ cache = <<>>
  /\ store = [rows |-> <<>>, last_id |-> 0]
  /\ stats = InitialStats
  /\ COMPLEXITY_THRESHOLD = DefaultThreshold
  /\ now = 0
  /\ uuids = 0
  /\ requests = 0
  /\ admin_calls = 0
  /\ CACHE_ENABLED \in BOOLEAN
  /\ USE_GROK \in BOOLEAN
  /\ inflight = <<>>
  /\ last = [op |-> "init", request |-> NoData, resp |-> NoData, calls |-> NoCalls]

\* POST /predict with a body the request model rejects.
PredictRejected ==
  /\ requests < MaxRequests
  /\ \E request \in Requests :
       /\ ~TextRequest_valid(request)
       /\ last' = [op |-> "predict", request |-> request,
                   resp |-> HTTPException(422, "validation", <<>>),
                   calls |-> NoCalls, steps |-> <<>>]
  /\ requests' = requests + 1
  /\ UNCHANGED <<inflight, cache, store, stats, COMPLEXITY_THRESHOLD, now, uuids, admin_calls,
                 CACHE_ENABLED, USE_GROK>>

\* The state after predict_with_routing has returned out for the request.
PredictReturns(request, out) ==
  /\ cache' = out.cache
  /\ store' = out.store
  /\ stats' = out.stats
  /\ now' = out.now
  /\ uuids' = out.uuids
  /\ last' = [op |-> "predict", request |-> request, resp |-> out.resp,
              calls |-> out.calls, steps |-> out.steps]

\* POST /predict
Predict ==
  /\ requests < MaxRequests
  /\ \E request \in Requests, env \in Envs :
       /\ TextRequest_valid(request)
       /\ PredictReturns(request,
            predict_with_routing(request, CACHE_ENABLED, CACHE_TTL, USE_GROK, cache,
                                 store, stats, COMPLEXITY_THRESHOLD, now, uuids, env))
  /\ requests' = requests + 1
  /\ UNCHANGED <<inflight, COMPLEXITY_THRESHOLD, admin_calls, CACHE_ENABLED, USE_GROK>>

\* POST /analyze with a body the request model rejects.
AnalyzeRejected ==
  /\ requests < MaxRequests
  /\ \E request \in Requests :
       /\ ~TextRequest_valid(request)
       /\ last' = [op |-> "analyze", request |-> request,
                   resp |-> HTTPException(422, "validation", <<>>),
                   calls |-> NoCalls]
  /\ requests' = requests + 1
  /\ UNCHANGED <<inflight, cache, store, stats, COMPLEXITY_THRESHOLD, now, uuids, admin_calls,
                 CACHE_ENABLED, USE_GROK>>

\* The state after analyze_complexity has returned out for the request.
AnalyzeReturns(request, out) ==
  /\ stats' = out.stats
  /\ last' = [op |-> "analyze", request |-> request, resp |-> out.resp,
              calls |-> out.calls]

\* POST /analyze
Analyze ==
  /\ requests < MaxRequests
  /\ \E request \in Requests :
       /\ TextRequest_valid(request)
       /\ AnalyzeReturns(request,
            analyze_complexity(request, stats, COMPLEXITY_THRESHOLD))
  /\ requests' = requests + 1
  /\ UNCHANGED <<inflight, cache, store, COMPLEXITY_THRESHOLD, now, uuids, admin_calls,
                 CACHE_ENABLED, USE_GROK>>

\* POST /config/threshold
UpdateThreshold ==
  /\ admin_calls < MaxAdminCalls
  /\ \E new_threshold \in ThresholdInputs :
       LET out == update_threshold(new_threshold, COMPLEXITY_THRESHOLD)
       IN  /\ COMPLEXITY_THRESHOLD' = out.threshold
           /\ last' = [op |-> "threshold", request |-> new_threshold,
                       resp |-> out.resp, calls |-> NoCalls]
  /\ admin_calls' = admin_calls + 1
  /\ UNCHANGED <<inflight, cache, store, stats, now, uuids, requests, CACHE_ENABLED, USE_GROK>>

\* POST /cache/clear
ClearCache ==
  /\ admin_calls < MaxAdminCalls
  /\ LET out == CacheManager_clear(cache)
     IN  /\ cache' = out.cache
         /\ last' = [op |-> "clear", request |-> NoData,
                     resp |-> OkResponse([entries_cleared |-> out.count]),
                     calls |-> NoCalls]
  /\ admin_calls' = admin_calls + 1
  /\ UNCHANGED <<inflight, store, stats, COMPLEXITY_THRESHOLD, now, uuids, requests,
                 CACHE_ENABLED, USE_GROK>>

\* POST /cache/cleanup
CleanupCache ==
  /\ admin_calls < MaxAdminCalls
  /\ LET out == CacheManager_cleanup_expired(cache, now)
     IN  /\ cache' = out.cache
         /\ last' = [op |-> "cleanup", request |-> NoData,
                     resp |-> OkResponse([entries_removed |-> out.count]),
                     calls |-> NoCalls]
  /\ admin_calls' = admin_calls + 1
  /\ UNCHANGED <<inflight, store, stats, COMPLEXITY_THRESHOLD, now, uuids, requests,
                 CACHE_ENABLED, USE_GROK>>

\* GET /history/{session_id}: the store answers or cannot be reached.
History ==
  /\ admin_calls < MaxAdminCalls
  /\ \E session_id \in HistorySessions, limit \in HistoryLimits :
       \/ \E history \in get_session_history(DB_TYPE, store, session_id, limit) :
            last' = [op |-> "history",
                     request |-> [session_id |-> session_id, limit |-> limit],
                     resp |-> OkResponse([session_id |-> session_id,
                                          count |-> Len(history),
                                          conversations |-> history]),
                     calls |-> [NoCalls EXCEPT !.db = <<"ok">>]]
       \/ last' = [op |-> "history",
                   request |-> [session_id |-> session_id, limit |-> limit],
                   resp |-> HTTPException(500, "history_error", <<>>),
                   calls |-> [NoCalls EXCEPT !.db = <<"error">>]]
  /\ admin_calls' = admin_calls + 1
  /\ UNCHANGED <<inflight, cache, store, stats, COMPLEXITY_THRESHOLD, now, uuids, requests,
                 CACHE_ENABLED, USE_GROK>>

\* GET /stats
GetStatistics ==
  /\ admin_calls < MaxAdminCalls
  /\ last' = [op |-> "stats", request |-> NoData,
              resp |-> OkResponse(
                [agent_statistics |-> agent_get_stats(stats),
                 cache_statistics |-> CacheManager_get_stats(cache, now, CACHE_TTL),
                 conversation_statistics |->
                   get_global_stats(DB_TYPE, store, StatsDays, now, TicksPerDay),
                 configuration |->
                   [complexity_threshold |-> COMPLEXITY_THRESHOLD,
                    cache_enabled |-> CACHE_ENABLED,
                    cache_ttl |-> CACHE_TTL]]),
              calls |-> [NoCalls EXCEPT !.db = <<"ok">>]]
  /\ admin_calls' = admin_calls + 1
  /\ UNCHANGED <<inflight, cache, store, stats, COMPLEXITY_THRESHOLD, now, uuids, requests,
                 CACHE_ENABLED, USE_GROK>>

\* GET /cache/stats
GetCacheStats ==
  /\ admin_calls < MaxAdminCalls
  /\ last' = [op |-> "cache_stats", request |-> NoData,
              resp |-> OkResponse(CacheManager_get_stats(cache, now, CACHE_TTL)),
              calls |-> NoCalls]
  /\ admin_calls' = admin_calls + 1
  /\ UNCHANGED <<inflight, cache, store, stats, COMPLEXITY_THRESHOLD, now, uuids, requests,
                 CACHE_ENABLED, USE_GROK>>

\* Time passes.
Tick ==
  /\ now < MaxTime
  /\ now' = now + 1
  /\ UNCHANGED <<inflight, cache, store, stats, COMPLEXITY_THRESHOLD, uuids, requests,
                 admin_calls, CACHE_ENABLED, USE_GROK, last>>

Next ==
  \/ PredictRejected
  \/ Predict
  \/ AnalyzeRejected
  \/ Analyze
  \/ UpdateThreshold
  \/ ClearCache
  \/ CleanupCache
  \/ History
  \/ GetStatistics
  \/ GetCacheStats
  \/ Tick

Spec == Init /\ [][Next]_vars

(***************************************************************************)
(* Properties.  A step of the service is recognised by the counter it      *)
(* advances and the operation it records.                                  *)
(***************************************************************************)

\* The step is a request to /predict, to /analyze, a threshold update.
PredictStep == requests' = requests + 1 /\ last'.op = "predict"

AnalyzeStep == requests' = requests + 1 /\ last'.op = "analyze"

ThresholdStep == admin_calls' = admin_calls + 1 /\ last'.op = "threshold"

\* A text that is missing, empty or made of whitespace only.
Blank(text) == text = None \/ \A i \in 1..Len(text) : IsSpace(text[i])

\* The cache key of a request's text on the predict path.
KeyOf(request) == generate_key(request.text, None)

\* C1: a predict request that carries a forced back-end leaves the cache as it
\* was (keys, payloads, hit counters, expiries), and its response, when
\* successful, has cache_hit = false.
C1_ForcedBypassesCache ==
  [][(PredictStep /\ Truthy(last'.request.force_model))
       => /\ cache' = cache
          /\ last'.resp.status = 200 => last'.resp.payload.cache_hit = FALSE]_vars

\* A forced request succeeded while a live entry for its text is in the cache.
C1_Witness ==
  /\ last.op = "predict"
  /\ Truthy(last.request.force_model)
  /\ last.resp.status = 200
  /\ last.resp.payload.cache_hit = FALSE
  /\ KeyOf(last.request) \in DOMAIN cache
  /\ now <= cache[KeyOf(last.request)].expires_at

\* The first of two calls: caching enabled, no override, text not in the cache,
\* the call succeeds.
C2_FirstCall ==
  /\ PredictStep
  /\ CACHE_ENABLED
  /\ ~Truthy(last'.request.force_model)
  /\ KeyOf(last'.request) \notin DOMAIN cache
  /\ last'.resp.status = 200

\* The second of two calls: the previous operation was a successful computed
\* predict without override, and this step is a successful predict without
\* override for the same text and the same session, no later than the expiry of
\* the entry the first call wrote.
C2_SecondCall ==
  /\ CACHE_ENABLED
  /\ last.op = "predict"
  /\ last.resp.status = 200
  /\ ~Truthy(last.request.force_model)
  /\ last.resp.payload.cache_hit = FALSE
  /\ PredictStep
  /\ last'.resp.status = 200
  /\ ~Truthy(last'.request.force_model)
  /\ last'.request.text = last.request.text
  /\ last'.resp.payload.session_id = last.resp.payload.session_id
  /\ KeyOf(last.request) \in DOMAIN cache
  /\ now <= cache[KeyOf(last.request)].expires_at

\* The history of the session of the step's response holds at least two records
\* and its two newest carry the same prediction.
C2_TwoRecords ==
  LET rows == SessionRows(store', last'.resp.payload.session_id)
  IN  /\ history_count(store', last'.resp.payload.session_id, HistoryLimit) >= 2
      /\ rows[Len(rows)].prediction = rows[Len(rows) - 1].prediction
      /\ rows[Len(rows)].prediction = last'.resp.payload.prediction

OneNewRecord ==
  /\ Len(store'.rows) = Len(store.rows) + 1
  /\ SubSeq(store'.rows, 1, Len(store.rows)) = store.rows
  /\ store'.rows[Len(store'.rows)].session_id = last'.resp.payload.session_id
  /\ store'.rows[Len(store'.rows)].input_text = last'.request.text
  /\ store'.rows[Len(store'.rows)].prediction = last'.resp.payload.prediction
  /\ history_count(store', last'.resp.payload.session_id, HistoryLimit)
       = history_count(store, last'.resp.payload.session_id, HistoryLimit) + 1

WithWorkingStore(calls) ==
  [clf |-> IF calls.classifier = <<>> THEN ClassifierAnswers
           ELSE calls.classifier[1].outcome,
   grok |-> IF calls.grok = <<>> THEN GrokAnswers ELSE calls.grok[1],
   db_reachable |-> TRUE,
   elapsed |-> 1]

\* C4: when the persistence write of a predict request fails, on the hit path or
\* on the miss path, the caller receives the successful response the same
\* request receives when the write succeeds.
C4_PersistFailureKeepsResponse ==
  [][(PredictStep /\ last'.calls.db = <<"error">>)
       => /\ last'.resp.status = 200
          /\ last'.resp =
               predict_with_routing(last'.request, CACHE_ENABLED, CACHE_TTL,
                                    USE_GROK, cache, store, stats,
                                    COMPLEXITY_THRESHOLD, now, uuids,
                                    WithWorkingStore(last'.calls)).resp]_vars

\* A response served from the cache although its write to the store failed.
C4_Witness ==
  /\ last.op = "predict"
  /\ last.calls.db = <<"error">>
  /\ last.resp.status = 200
  /\ last.resp.payload.cache_hit = TRUE

\* C5 as stated: after a successful classification call the predict request
\* completes successfully, whatever the classifier's result and whatever the
\* explanation service does.
C5_ExplanationNeverAborts ==
  (/\ last.op = "predict"
   /\ last.calls.classifier # <<>>
   /\ last.calls.classifier[1].outcome.kind = "ok")
    => last.resp.status = 200

\* C6: a failed classification call ends the request in a failure, never in a
\* success: 504 for a timeout, the downstream status with the downstream body
\* for an error status, 503 for a network failure.
C6_ClassificationFailures ==
  (/\ last.op = "predict"
   /\ last.calls.classifier # <<>>
   /\ last.calls.classifier[1].outcome.kind # "ok")
    => LET outcome == last.calls.classifier[1].outcome
           detail == last.resp.detail
       IN  /\ last.resp.payload = NoData
           /\ outcome.kind = "timeout" => last.resp.status = 504
           /\ outcome.kind = "status" =>
                /\ last.resp.status = outcome.status
                /\ Len(detail) >= Len(outcome.body)
                /\ SubSeq(detail, Len(detail) - Len(outcome.body) + 1, Len(detail))
                     = outcome.body
           /\ outcome.kind = "network" => last.resp.status = 503

\* The back-end answered 404 and the request ended with that status.
C6_Witness ==
  /\ last.op = "predict"
  /\ last.calls.classifier # <<>>
  /\ last.calls.classifier[1].outcome.kind = "status"
  /\ last.resp.status = 404

\* C7: a predict request whose forced back-end is neither tfidf nor transformer,
\* compared without case, is rejected with status 400, and neither a classifier
\* nor the explanation service is called for it.
C7_UnknownBackendRejected ==
  (/\ last.op = "predict"
   /\ last.resp.kind # "validation"
   /\ Truthy(last.request.force_model)
   /\ Lower(last.request.force_model) \notin {TFIDF, TRANSFORMER})
    => /\ last.resp.status = 400
       /\ last.calls.classifier = <<>>
       /\ last.calls.grok = <<>>

\* A request that forced the back-end "gpt" was rejected.
C7_Witness ==
  /\ last.op = "predict"
  /\ last.request.force_model = <<"g","p","t">>
  /\ last.resp.status = 400
  /\ last.calls = NoCalls

\* C8: a predict or analyze request whose text is missing, empty or whitespace
\* only is rejected with a client error; no downstream call is made and the
\* cache, the store and the router's counters stay as they were.
C8_BlankTextRejected ==
  [][((PredictStep \/ AnalyzeStep) /\ Blank(last'.request.text))
       => /\ last'.resp.status \in 400..499
          /\ last'.calls = NoCalls
          /\ cache' = cache
          /\ store' = store
          /\ stats' = stats]_vars

\* An analyze request with a whitespace-only text was rejected.
C8_Witness ==
  /\ last.op = "analyze"
  /\ last.request.text = <<" ">>
  /\ last.resp.status = 422

\* C9: the threshold is in [0,100] in every state; an update outside [0,100] is
\* rejected and leaves the threshold as it was, an update inside [0,100], ends
\* included, replaces it.
C9_ThresholdRange ==
  /\ [](COMPLEXITY_THRESHOLD \in 0..100)
  /\ [][ThresholdStep
          => IF last'.request \in 0..100
             THEN /\ last'.resp.status = 200
                  /\ COMPLEXITY_THRESHOLD' = last'.request
             ELSE /\ last'.resp.status \in 400..499
                  /\ COMPLEXITY_THRESHOLD' = COMPLEXITY_THRESHOLD]_vars

\* The threshold was set to the upper end of the range.
C9_Witness ==
  /\ last.op = "threshold"
  /\ last.request = 100
  /\ last.resp.status = 200
  /\ COMPLEXITY_THRESHOLD = 100

\* C10: a predict request without override that is not served from the cache
\* calls tfidf exactly when the text's score is below the threshold and
\* transformer when it is at or above it, and analyze recommends by the same
\* rule.
C10_RoutingRule ==
  [][/\ (/\ PredictStep
         /\ ~Truthy(last'.request.force_model)
         /\ last'.calls.classifier # <<>>)
          => /\ last'.calls.classifier[1].model
                  = (IF analyzer_analyze(last'.request.text).score
                          < COMPLEXITY_THRESHOLD
                     THEN TFIDF ELSE TRANSFORMER)
             /\ last'.resp.status = 200 =>
                  last'.resp.payload.model_used = last'.calls.classifier[1].model
     /\ (AnalyzeStep /\ last'.resp.status = 200)
          => last'.resp.payload.recommended_model
               = (IF analyzer_analyze(last'.request.text).score
                       < COMPLEXITY_THRESHOLD
                  THEN TFIDF ELSE TRANSFORMER)]_vars

\* A text whose score equals the threshold was sent to the transformer.
C10_Witness ==
  /\ last.op = "predict"
  /\ last.request.force_model = None
  /\ last.calls.classifier # <<>>
  /\ last.calls.classifier[1].model = TRANSFORMER
  /\ analyzer_analyze(last.request.text).score = DefaultThreshold
  /\ COMPLEXITY_THRESHOLD = DefaultThreshold
  /\ admin_calls = 0

\* C11: a predict request whose override names a known back-end calls that
\* back-end and no other, whatever the score of its text and the threshold,
\* and a successful response reports it as model_used.
C11_OverrideUsedVerbatim ==
  (/\ last.op = "predict"
   /\ Truthy(last.request.force_model)
   /\ Lower(last.request.force_model) \in {TFIDF, TRANSFORMER})
    => /\ Len(last.calls.classifier) = 1
       /\ last.calls.classifier[1].model = Lower(last.request.force_model)
       /\ last.resp.status = 200 =>
            last.resp.payload.model_used = Lower(last.request.force_model)

\* A request forced to a back-end that the threshold would not have selected
\* for its text succeeded.
C11_Witness ==
  /\ last.op = "predict"
  /\ Truthy(last.request.force_model)
  /\ last.resp.status = 200
  /\ last.resp.payload.model_used = Lower(last.request.force_model)
  /\ last.resp.payload.model_used
       # select_model(last.resp.payload.complexity_analysis.score,
                      COMPLEXITY_THRESHOLD)
  /\ admin_calls = 0

\* C16: a successful predict response carries the session id of its request
\* when the request has one, on a cache hit too; otherwise it carries the
\* token generated for this request, which no earlier request was given: the
\* store holds no record under it except the one this request saved.
C16_SessionIdEchoedOrFresh ==
  (last.op = "predict" /\ last.resp.status = 200)
    => IF Truthy(last.request.session_id)
       THEN last.resp.payload.session_id = last.request.session_id
       ELSE /\ last.resp.payload.session_id = uuid4(uuids)
            /\ \A i \in 1..Len(store.rows) :
                 store.rows[i].session_id = last.resp.payload.session_id
                   => /\ i = Len(store.rows)
                      /\ last.calls.db = <<"ok">>

\* A cache hit answered a request with the session id of that request, and the
\* payload it served was computed for a request of another session.
C16_Witness ==
  /\ last.op = "predict"
  /\ last.resp.status = 200
  /\ last.resp.payload.cache_hit
  /\ Truthy(last.request.session_id)
  /\ last.resp.payload.session_id = last.request.session_id
  /\ Len(store.rows) = 2
  /\ store.rows[1].session_id = uuid4(1)
  /\ store.rows[2].session_id = last.request.session_id

\* C18: no operation of the service (predict, analyze, history, statistics,
\* cache clear and cleanup, threshold update) modifies or removes a saved
\* record: every record stays where it is, with its id and every field, and
\* new records are appended with ids above those given before.
C18_AppendOnlyLog ==
  [][/\ Len(store'.rows) >= Len(store.rows)
     /\ \A i \in 1..Len(store.rows) : store'.rows[i] = store.rows[i]
     /\ \A i \in Len(store.rows) + 1..Len(store'.rows) :
          store'.rows[i].id > store.last_id
     /\ store'.last_id >= store.last_id]_vars

\* Two records are in the log after a management or read operation that
\* followed the requests that saved them.
C18_Witness ==
  /\ Len(store.rows) = 2
  /\ last.op \in {"clear", "cleanup", "history", "stats", "cache_stats",
                  "threshold"}
  /\ store.rows[1].id = 1
  /\ store.rows[2].id = 2

\* C23: a request to /analyze calls no classifier and no explanation service
\* and does not touch the conversation store, and it leaves the cache and the
\* conversation log as they were.
C23_AnalyzeOnlyScores ==
  [][AnalyzeStep => /\ last'.calls = NoCalls
                    /\ cache' = cache
                    /\ store' = store]_vars

\* A text was analysed while the cache held an entry and the log a record.
C23_Witness ==
  /\ last.op = "analyze"
  /\ last.resp.status = 200
  /\ last.calls = NoCalls
  /\ DOMAIN cache # {}
  /\ Len(store.rows) >= 1

\* C24: the score a successful analyze returns for a text and the score a
\* successful predict returns for it in complexity_analysis are both the
\* scorer's score of that text, whether the predict response was computed or
\* taken from the cache, and whatever the service did before.
C24_AnalyzeAndPredictAgree ==
  /\ (last.op = "analyze" /\ last.resp.status = 200)
       => last.resp.payload.complexity_score
            = analyzer_analyze(last.request.text).score
  /\ (last.op = "predict" /\ last.resp.status = 200)
       => last.resp.payload.complexity_analysis.score
            = analyzer_analyze(last.request.text).score

\* A predict response was served from the cache while the threshold was not
\* the one the service started with.
C24_Witness ==
  /\ last.op = "predict"
  /\ last.resp.status = 200
  /\ last.resp.payload.cache_hit
  /\ last.resp.payload.complexity_analysis.score
       = analyzer_analyze(last.request.text).score
  /\ last.request.text = TextNeRh
  /\ COMPLEXITY_THRESHOLD # DefaultThreshold

\* The step routes a text: a request to /analyze or to /predict that the
\* request model accepts and that is not answered from the cache.
RoutedStep ==
  \/ AnalyzeStep /\ last'.resp.status # 422
  \/ /\ PredictStep
     /\ last'.resp.status # 422
     /\ ~(last'.resp.status = 200 /\ last'.resp.payload.cache_hit)

\* The sum of the counters of a family.
CounterSum(counters) == SumOver(counters, DOMAIN counters)

StatisticsStep == admin_calls' = admin_calls + 1 /\ last'.op = "stats"

\* The counts of the conversation statistics agree with each other.
ConsistentCounts(s) ==
  /\ s.total_conversations = CounterSum(s.model_distribution)
  /\ s.total_conversations = CounterSum(s.category_distribution)
  /\ s.unique_sessions <= s.total_conversations
  /\ s.total_conversations >= 1 => s.unique_sessions >= 1

\* total_conversations as /stats would report it from the log and the clock.
TotalConversations(log, clock) ==
  get_global_stats(DB_TYPE, log, StatsDays, clock, TicksPerDay).total_conversations

MissPath ==
  <<"CacheLookup", "Route", "ClassifyCall", "GenerateExplanation", "CacheStore",
    "Persist">>

BypassPath == <<"Route", "ClassifyCall", "GenerateExplanation", "Persist">>

\* The steps are the first ones of the path, up to the one that failed.
StartOf(steps, path) ==
  Len(steps) <= Len(path) /\ steps = SubSeq(path, 1, Len(steps))

\* The steps of the last request, a predict the request model accepted, match
\* what it called and what it left: no classifier and no explanation service
\* without their steps, a write to the log exactly with Persist, the entry of
\* the text fresh in the cache after CacheStore, a complete path exactly for a
\* successful response.
StepsMatchEffects(path) ==
  LET steps == last.steps
      done(step) == \E i \in 1..Len(steps) : steps[i] = step
  IN  /\ last.calls.classifier # <<>> => done("ClassifyCall")
      /\ last.calls.grok # <<>> => done("GenerateExplanation")
      /\ last.calls.db # <<>> <=> done("Persist")
      /\ done("CacheStore")
           => /\ KeyOf(last.request) \in DOMAIN cache
              /\ cache[KeyOf(last.request)].hits = 0
              /\ cache[KeyOf(last.request)].data.prediction
                   = last.resp.payload.prediction
      /\ last.resp.status = 200 <=> steps = path

\* C30 as stated: every predict request looks the text up; a hit goes to
\* Persist and nothing else, a miss goes through Route, ClassifyCall,
\* GenerateExplanation, CacheStore and Persist in that order, up to the step
\* that fails.
C30_AsStated ==
  (last.op = "predict" /\ last.resp.status # 422)
    => \/ /\ last.steps = <<"CacheLookup", "Persist">>
          /\ last.resp.payload.cache_hit
          /\ StepsMatchEffects(<<"CacheLookup", "Persist">>)
       \/ /\ StartOf(last.steps, MissPath)
          /\ Len(last.steps) >= 3
          /\ StepsMatchEffects(MissPath)

\* C30: a predict request with caching enabled and no override looks the
\* text up; a hit goes to Persist and nothing else, a miss goes through Route,
\* ClassifyCall, GenerateExplanation, CacheStore and Persist in that order, up
\* to the step that fails.  A request with an override, or with caching
\* disabled, neither looks the text up nor stores it: it goes through Route,
\* ClassifyCall, GenerateExplanation and Persist.
C30_RequestPaths ==
  (last.op = "predict" /\ last.resp.status # 422)
    => IF CACHE_ENABLED /\ ~Truthy(last.request.force_model)
       THEN \/ /\ last.steps = <<"CacheLookup", "Persist">>
               /\ last.resp.payload.cache_hit
               /\ StepsMatchEffects(<<"CacheLookup", "Persist">>)
            \/ /\ StartOf(last.steps, MissPath)
               /\ Len(last.steps) >= 3
               /\ StepsMatchEffects(MissPath)
       ELSE /\ StartOf(last.steps, BypassPath)
            /\ Len(last.steps) >= 2
            /\ StepsMatchEffects(BypassPath)

\* A request went the whole path of a miss and its write to the log, the
\* second one of the log, succeeded.
C30_Witness ==
  /\ last.op = "predict"
  /\ last.steps = MissPath
  /\ last.calls.db = <<"ok">>
  /\ Len(store.rows) = 2

\* C31: a successful predict response has cache_hit exactly when no classifier
\* was called for the request, and a request without override for whose text
\* the cache holds an entry that has not expired calls no classifier.
C31_ReadBeforeCompute ==
  [][PredictStep =>
       /\ last'.resp.status = 200
            => (last'.resp.payload.cache_hit <=> last'.calls.classifier = <<>>)
       /\ (/\ ~Truthy(last'.request.force_model)
           /\ last'.calls.classifier # <<>>)
            => ~(/\ KeyOf(last'.request) \in DOMAIN cache
                 /\ now <= cache[KeyOf(last'.request)].expires_at)]_vars

\* A request was served from the cache without a classifier call, and its
\* record is the second of the log.
C31_Witness ==
  /\ last.op = "predict"
  /\ last.resp.status = 200
  /\ last.resp.payload.cache_hit
  /\ last.calls.classifier = <<>>
  /\ last.calls.db = <<"ok">>
  /\ Len(store.rows) = 2
  /\ cache[KeyOf(last.request)].hits = 1

\* C32: a predict request served from the cache leaves the payload of the
\* entry as the set stored it, its session_id and cache_hit included, and
\* changes only the hit counter and the last-access time of the entry.
C32_HitKeepsPayload ==
  [][(/\ PredictStep
      /\ last'.resp.status = 200
      /\ last'.resp.payload.cache_hit)
       => LET key == KeyOf(last'.request)
          IN  /\ key \in DOMAIN cache'
              /\ cache'[key].data = cache[key].data
              /\ cache'[key].created_at = cache[key].created_at
              /\ cache'[key].expires_at = cache[key].expires_at]_vars

\* C36: every successful predict without override, computed or served from
\* the cache, reports tfidf exactly when the score of its text is below the
\* threshold in effect when the request is made, also after the threshold was
\* updated.
C36_NoStaleRouting ==
  (/\ last.op = "predict"
   /\ last.resp.status = 200
   /\ ~Truthy(last.request.force_model))
    => (last.resp.payload.model_used = TFIDF
          <=> analyzer_analyze(last.request.text).score < COMPLEXITY_THRESHOLD)

\* The outcomes of a predict request that got no classification: the
\* classifier timed out, answered an error status or could not be reached, or
\* the forced back-end is unknown.
Unclassified == {"timeout", "upstream_error", "unreachable", "unknown_model"}

\* A predict request ends without a classification.
UnclassifiedStep == PredictStep /\ last'.resp.kind \in Unclassified

\* C37, as stated: a predict request that ends in a classification failure or
\* in an unknown-back-end rejection leaves the cache and the conversation
\* store unchanged.
C37_AsStated ==
  [][UnclassifiedStep => (cache' = cache /\ store' = store)]_vars

\* C37, amended: such a request saves no record and writes no cache entry;
\* the cache is left as it was, except that the lookup of the request deletes
\* the expired entry of its text when there is one; no entry of the text
\* remains after a request that consulted the cache.
C37_FailureWritesNothing ==
  [][UnclassifiedStep =>
       LET key == KeyOf(last'.request)
           consulted == cache_consulted(CACHE_ENABLED, last'.request)
       IN  /\ store' = store
           /\ IF consulted /\ key \in DOMAIN cache
              THEN /\ now > cache[key].expires_at
                   /\ cache' = [k \in DOMAIN cache \ {key} |-> cache[k]]
              ELSE cache' = cache
           /\ consulted => key \notin DOMAIN cache']_vars

\* A second request, made after the response to the first had time to expire,
\* consulted the cache and ended in a classification failure; one record is
\* saved and the cache holds nothing.
C37_Witness ==
  /\ last.op = "predict"
  /\ last.resp.kind \in Unclassified \ {"unknown_model"}
  /\ cache_consulted(CACHE_ENABLED, last.request)
  /\ requests = 2
  /\ admin_calls = 0
  /\ now > CACHE_TTL
  /\ Len(store.rows) = 1
  /\ store.rows[1].input_text = last.request.text
  /\ cache = <<>>

(***************************************************************************)
(* The cache on its own: CacheManager driven by its callers' operations,   *)
(* with any text and any override.  The payload of a set names the text    *)
(* and the override it was stored for, as the response of /predict names   *)
(* its input.  requests counts the operations; the variables of the        *)
(* service other than cache, now, requests and last stay as they start.    *)
(***************************************************************************)

\* The most operations on the cache in one run of the model.
MaxCacheOps == 4

\* Two texts, the second being the first followed by ":tfidf".
CacheTexts == {<<"a">>, <<"a",":">> \o TFIDF}

CacheModels == {None, TFIDF}

CachePredictions == {Hardware, Access}

\* What the last operation on the cache was and what it returned.  found and
\* expires_at tell whether the key of a get or a set held an entry before the
\* operation, and when that entry expired.  after tells which operation came
\* before a get_stats, at what time, and the number it returned.  cleared holds
\* from a clear to the next set.  since_set
\* follows a set and the gets for the same text and override that come straight
\* after it: the payload stored, the time of the set, the number of those gets.
NoCacheOp ==
  [op |-> "init", text |-> None, model |-> None, at |-> 0, hit |-> FALSE,
   found |-> FALSE, expires_at |-> 0, data |-> NoData, count |-> 0,
   stats |-> NoData, cleared |-> FALSE,
   after |-> [op |-> "init", at |-> 0, count |-> 0],
   since_set |-> [valid |-> FALSE, at |-> 0, data |-> NoData, gets |-> 0]]

CacheInit ==
  /\ cache = <<>>
  /\ store = [rows |-> <<>>, last_id |-> 0]
  /\ stats = InitialStats
  /\ COMPLEXITY_THRESHOLD = DefaultThreshold
  /\ now = 0
  /\ uuids = 0
  /\ requests = 0
  /\ admin_calls = 0
  /\ CACHE_ENABLED = TRUE
  /\ USE_GROK = FALSE
  /\ inflight = <<>>
  /\ last = NoCacheOp

\* cache_manager.set(text, data, model)
SetEntry ==
  /\ requests < MaxCacheOps
  /\ \E text \in CacheTexts, model \in CacheModels, prediction \in CachePredictions :
       LET data == [input |-> text, override |-> model, prediction |-> prediction]
           key == generate_key(text, model)
           found == key \in DOMAIN cache
       IN  /\ cache' = CacheManager_set(cache, text, data, model, now, CACHE_TTL)
           /\ last' = [NoCacheOp EXCEPT
                         !.op = "set", !.text = text, !.model = model, !.at = now,
                         !.data = data, !.found = found,
                         !.expires_at = IF found THEN cache[key].expires_at ELSE 0,
                         !.since_set = [valid |-> TRUE, at |-> now, data |-> data,
                                        gets |-> 0]]
  /\ requests' = requests + 1
  /\ UNCHANGED <<inflight, store, stats, COMPLEXITY_THRESHOLD, now, uuids, admin_calls,
                 CACHE_ENABLED, USE_GROK>>

\* cache_manager.get(text, model)
GetEntry ==
  /\ requests < MaxCacheOps
  /\ \E text \in CacheTexts, model \in CacheModels :
       LET out == CacheManager_get(cache, text, model, now)
           key == generate_key(text, model)
           found == key \in DOMAIN cache
           follows == /\ last.since_set.valid
                      /\ last.op \in {"set", "get"}
                      /\ last.text = text
                      /\ last.model = model
       IN  /\ cache' = out.cache
           /\ last' = [NoCacheOp EXCEPT
                         !.op = "get", !.text = text, !.model = model, !.at = now,
                         !.hit = out.hit, !.data = out.data, !.found = found,
                         !.cleared = last.cleared,
                         !.expires_at = IF found THEN cache[key].expires_at ELSE 0,
                         !.since_set =
                           IF follows
                           THEN [last.since_set EXCEPT !.gets = @ + 1]
                           ELSE NoCacheOp.since_set]
  /\ requests' = requests + 1
  /\ UNCHANGED <<inflight, store, stats, COMPLEXITY_THRESHOLD, now, uuids, admin_calls,
                 CACHE_ENABLED, USE_GROK>>

\* cache_manager.clear()
ClearEntries ==
  /\ requests < MaxCacheOps
  /\ LET out == CacheManager_clear(cache)
     IN  /\ cache' = out.cache
         /\ last' = [NoCacheOp EXCEPT !.op = "clear", !.at = now,
                                      !.count = out.count, !.cleared = TRUE]
  /\ requests' = requests + 1
  /\ UNCHANGED <<inflight, store, stats, COMPLEXITY_THRESHOLD, now, uuids, admin_calls,
                 CACHE_ENABLED, USE_GROK>>

\* cache_manager.cleanup_expired()
CleanupEntries ==
  /\ requests < MaxCacheOps
  /\ LET out == CacheManager_cleanup_expired(cache, now)
     IN  /\ cache' = out.cache
         /\ last' = [NoCacheOp EXCEPT !.op = "cleanup", !.at = now,
                                      !.count = out.count,
                                      !.cleared = last.cleared]
  /\ requests' = requests + 1
  /\ UNCHANGED <<inflight, store, stats, COMPLEXITY_THRESHOLD, now, uuids, admin_calls,
                 CACHE_ENABLED, USE_GROK>>

\* cache_manager.get_stats()
ReadCacheStats ==
  /\ requests < MaxCacheOps
  /\ last' = [NoCacheOp EXCEPT
                !.op = "stats", !.at = now, !.cleared = last.cleared,
                !.after = [op |-> last.op, at |-> last.at, count |-> last.count],
                !.stats = CacheManager_get_stats(cache, now, CACHE_TTL)]
  /\ requests' = requests + 1
  /\ UNCHANGED <<inflight, cache, store, stats, COMPLEXITY_THRESHOLD, now, uuids, admin_calls,
                 CACHE_ENABLED, USE_GROK>>

\* Time passes.
CacheTick ==
  /\ now < MaxTime
  /\ now' = now + 1
  /\ UNCHANGED <<inflight, cache, store, stats, COMPLEXITY_THRESHOLD, uuids, requests,
                 admin_calls, CACHE_ENABLED, USE_GROK, last>>

CacheNext ==
  \/ SetEntry
  \/ GetEntry
  \/ ClearEntries
  \/ CleanupEntries
  \/ ReadCacheStats
  \/ CacheTick

CacheSpec == CacheInit /\ [][CacheNext]_vars

\* The key the last operation named.
LastKey == generate_key(last.text, last.model)

\* C12: a get that follows a set of the same text and override, with nothing
\* but gets of that text and override in between and before the TTL of the
\* entry has elapsed, hits and returns the payload of the set unchanged, and
\* the k-th such get leaves the hit counter of the entry at k.
C12_RoundTrip ==
  (/\ last.op = "get"
   /\ last.since_set.valid
   /\ last.at < last.since_set.at + CACHE_TTL)
    => /\ last.hit
       /\ last.data = last.since_set.data
       /\ LastKey \in DOMAIN cache
       /\ cache[LastKey].data = last.since_set.data
       /\ cache[LastKey].hits = last.since_set.gets

\* The second get after a set returned the payload and left the counter at 2.
C12_Witness ==
  /\ last.op = "get"
  /\ last.since_set.valid
  /\ last.since_set.gets = 2
  /\ last.hit
  /\ last.model = TFIDF
  /\ cache[LastKey].hits = 2

\* C13: a get returns the payload of an entry only at a time before the
\* entry's expires_at; at the instant of expiry and after it the get misses.
C13_VisibleOnlyBeforeExpiry ==
  (last.op = "get" /\ last.found /\ last.at >= last.expires_at) => ~last.hit

\* C14: once the TTL of an entry has elapsed (the clock has passed its
\* expires_at), a get for it misses and removes it, and get_stats counts as
\* active only the entries whose TTL has not elapsed, whether the expired
\* entry is still stored or a get or a cleanup has removed it.
C14_ExpiredIsMissAndInactive ==
  /\ (last.op = "get" /\ last.found /\ last.at > last.expires_at)
       => ~last.hit /\ LastKey \notin DOMAIN cache
  /\ last.op = "stats"
       => last.stats.active_entries
            = Cardinality({k \in DOMAIN cache : last.at <= cache[k].expires_at})

\* The statistics were read while an entry whose TTL has elapsed was still
\* stored, and it was not counted as active.
C14_Witness ==
  /\ last.op = "stats"
  /\ \E k \in DOMAIN cache : last.at > cache[k].expires_at
  /\ last.stats.total_entries = 1
  /\ last.stats.active_entries = 0

\* C15: a get returns only a payload that a set stored for the same text and
\* the same override (or for no override, when the get names none).
C15_KeysSeparateInputs ==
  (last.op = "get" /\ last.hit)
    => /\ last.data.input = last.text
       /\ \/ last.data.override = last.model
          \/ ~Truthy(last.data.override) /\ ~Truthy(last.model)

\* The step is a set, a cleanup, a clear of the cache.
SetStep == requests' = requests + 1 /\ last'.op = "set"

CleanupStep == requests' = requests + 1 /\ last'.op = "cleanup"

ClearStep == requests' = requests + 1 /\ last'.op = "clear"

\* C26: after a set the key of its text and override holds the payload of the
\* set, expires one TTL after the time of the set and has no hit, whatever the
\* key held before; the cache holds the keys it held and that one, and the
\* entries of the other keys are as they were.
C26_SetCreatesOrReplaces ==
  [][SetStep =>
       LET key == generate_key(last'.text, last'.model)
       IN  /\ DOMAIN cache' = DOMAIN cache \cup {key}
           /\ cache'[key].data = last'.data
           /\ cache'[key].expires_at = now + CACHE_TTL
           /\ cache'[key].hits = 0
           /\ \A k \in DOMAIN cache \ {key} : cache'[k] = cache[k]]_vars

\* A set replaced an entry that had expired, while another key held an entry.
C26_Witness ==
  /\ last.op = "set"
  /\ last.found
  /\ last.at > last.expires_at
  /\ cache[LastKey].hits = 0
  /\ cache[LastKey].expires_at = last.at + CACHE_TTL
  /\ Cardinality(DOMAIN cache) = 2

\* C27: a cleanup removes the entries whose expires_at the clock has passed
\* and no other, and returns their number; a get_stats that comes straight
\* after it, at the same time, reports no expired entry and as many active
\* entries as entries.
C27_CleanupRemovesExpiredOnly ==
  [][/\ CleanupStep =>
          LET expired == {k \in DOMAIN cache : now > cache[k].expires_at}
          IN  /\ DOMAIN cache' = DOMAIN cache \ expired
              /\ \A k \in DOMAIN cache' : cache'[k] = cache[k]
              /\ last'.count = Cardinality(expired)
     /\ (/\ requests' = requests + 1
         /\ last'.op = "stats"
         /\ last.op = "cleanup"
         /\ last.at = now)
          => /\ last'.stats.expired_entries = 0
             /\ last'.stats.total_entries = last'.stats.active_entries]_vars

\* The statistics were read straight after a cleanup that had removed the
\* expired one of two entries, and they report one entry, active.
C27_Witness ==
  /\ last.op = "stats"
  /\ last.after.op = "cleanup"
  /\ last.after.at = last.at
  /\ last.after.count = 1
  /\ last.stats.expired_entries = 0
  /\ last.stats.total_entries = 1
  /\ last.stats.active_entries = 1

\* C28: a clear removes every entry and returns the number of entries the
\* cache held; from then to the next set the cache is empty, a get_stats
\* reports no entry and a get misses.
C28_ClearRemovesEverything ==
  /\ [][ClearStep => /\ DOMAIN cache' = {}
                     /\ last'.count = Cardinality(DOMAIN cache)]_vars
  /\ [](last.cleared => /\ DOMAIN cache = {}
                        /\ last.op = "get" => ~last.hit
                        /\ last.op = "stats" => last.stats.total_entries = 0)

\* The statistics were read straight after a clear that had removed two
\* entries, the TTL of one of them at least having elapsed, and they report no
\* entry.
C28_Witness ==
  /\ last.op = "stats"
  /\ last.cleared
  /\ last.after.op = "clear"
  /\ last.after.count = 2
  /\ last.at >= 2
  /\ last.stats.total_entries = 0

\* A step that is a call of cache_manager.get.
GetStep == requests' = requests + 1 /\ last'.op = "get"

\* C40: the expiry of an entry is fixed when it is written.  A get that hits
\* changes the hit counter and the last-access time of its entry and nothing
\* else; an entry written at time t is at t + TTL from its creation and a get
\* after that instant misses, however many hits it served; only a set of its
\* key gives an entry another expiry or creation time.
C40_ExpiryFixedAtWrite ==
  [][LET key == generate_key(last'.text, last'.model)
     IN  /\ \A k \in DOMAIN cache \cap DOMAIN cache' :
              (\/ cache'[k].expires_at # cache[k].expires_at
               \/ cache'[k].created_at # cache[k].created_at)
                => (SetStep /\ k = key)
         /\ \A k \in DOMAIN cache' :
              cache'[k].expires_at = cache'[k].created_at + CACHE_TTL
         /\ (GetStep /\ last'.hit)
              => /\ now <= cache[key].created_at + CACHE_TTL
                 /\ cache' = [cache EXCEPT ![key].hits = cache[key].hits + 1,
                                           ![key].last_accessed = now]
         /\ (GetStep /\ key \in DOMAIN cache
                     /\ now > cache[key].created_at + CACHE_TTL)
              => ~last'.hit]_vars

\* An entry that served a hit when it was written and a hit at its expiry
\* instant keeps the expiry it was written with.
C40_Witness ==
  /\ last.op = "get"
  /\ last.hit
  /\ LastKey \in DOMAIN cache
  /\ cache[LastKey].hits = 2
  /\ cache[LastKey].created_at = 0
  /\ cache[LastKey].expires_at = CACHE_TTL
  /\ now = CACHE_TTL

(***************************************************************************)
(* The store on its own: two deployments of ConversationStore, one per     *)
(* engine, receive the same operations at the same times.  store maps an   *)
(* engine to its table, requests counts the operations, last holds what    *)
(* each engine returned; cache and the other variables of the service stay *)
(* as they start.                                                          *)
(***************************************************************************)

\* The most operations on the store in one run of the model.
MaxStoreOps == 3

StoreSessions == {<<"s","1">>, <<"s","2">>}

StorePredictions == {Hardware, Access}

\* Response times in seconds, and none.
StoreTimes == {NullTime, 0, 1}

StoreLimits == {1, HistoryLimit}

StoreDays == {0, 1}

StoreInit ==
  /\ cache = <<>>
  /\ store = [db \in DbTypes |-> [rows |-> <<>>, last_id |-> 0]]
  /\ stats = InitialStats
  /\ COMPLEXITY_THRESHOLD = DefaultThreshold
  /\ now = 0
  /\ uuids = 0
  /\ requests = 0
  /\ admin_calls = 0
  /\ CACHE_ENABLED = TRUE
  /\ USE_GROK = FALSE
  /\ inflight = <<>>
  /\ last = [op |-> "init", args |-> NoData, at |-> 0,
             result |-> [db \in DbTypes |-> [raised |-> FALSE, value |-> NoData]]]

\* conversation_store.save_conversation(...)
SaveConversation ==
  /\ requests < MaxStoreOps
  /\ \E session_id \in StoreSessions, prediction \in StorePredictions,
        response_time \in StoreTimes :
       LET saved == [db \in DbTypes |->
                       save_conversation(store[db], session_id, TextRh, prediction,
                                         TFIDF, 26, "simple", SomeProbabilities,
                                         response_time, None, None, now, TRUE)]
       IN  /\ store' = [db \in DbTypes |-> saved[db].store]
           /\ last' = [op |-> "save",
                       args |-> [session_id |-> session_id,
                                 prediction |-> prediction,
                                 response_time |-> response_time],
                       at |-> now,
                       result |-> [db \in DbTypes |->
                                     [raised |-> saved[db].raised,
                                      value |-> saved[db].store.last_id]]]
  /\ requests' = requests + 1
  /\ UNCHANGED <<inflight, cache, stats, COMPLEXITY_THRESHOLD, now, uuids, admin_calls,
                 CACHE_ENABLED, USE_GROK>>

\* conversation_store.get_session_history(session_id, limit)
ReadHistory ==
  /\ requests < MaxStoreOps
  /\ \E session_id \in StoreSessions, limit \in StoreLimits :
       \E history \in [DbTypes ->
                         UNION {get_session_history(db, store[db], session_id, limit) :
                                  db \in DbTypes}] :
         /\ \A db \in DbTypes :
              history[db] \in get_session_history(db, store[db], session_id, limit)
         /\ last' = [op |-> "history",
                     args |-> [session_id |-> session_id, limit |-> limit],
                     at |-> now,
                     result |-> [db \in DbTypes |->
                                   [raised |-> FALSE, value |-> history[db]]]]
  /\ requests' = requests + 1
  /\ UNCHANGED <<inflight, cache, store, stats, COMPLEXITY_THRESHOLD, now, uuids, admin_calls,
                 CACHE_ENABLED, USE_GROK>>

\* conversation_store.get_global_stats(days)
ReadGlobalStats ==
  /\ requests < MaxStoreOps
  /\ \E days \in StoreDays :
       last' = [op |-> "stats", args |-> [days |-> days], at |-> now,
                result |-> [db \in DbTypes |->
                              [raised |-> FALSE,
                               value |-> get_global_stats(db, store[db], days, now,
                                                          TicksPerDay)]]]
  /\ requests' = requests + 1
  /\ UNCHANGED <<inflight, cache, store, stats, COMPLEXITY_THRESHOLD, now, uuids, admin_calls,
                 CACHE_ENABLED, USE_GROK>>

\* conversation_store.cleanup_old_conversations(days)
CleanupOldConversations ==
  /\ requests < MaxStoreOps
  /\ \E days \in StoreDays :
       LET out == [db \in DbTypes |->
                     cleanup_old_conversations(db, store[db], days, now, TicksPerDay)]
       IN  /\ store' = [db \in DbTypes |-> out[db].store]
           /\ last' = [op |-> "purge", args |-> [days |-> days], at |-> now,
                       result |-> [db \in DbTypes |->
                                     [raised |-> out[db].raised,
                                      value |-> out[db].deleted_count]]]
  /\ requests' = requests + 1
  /\ UNCHANGED <<inflight, cache, stats, COMPLEXITY_THRESHOLD, now, uuids, admin_calls,
                 CACHE_ENABLED, USE_GROK>>

\* Time passes.
StoreTick ==
  /\ now < MaxTime
  /\ now' = now + 1
  /\ UNCHANGED <<inflight, cache, store, stats, COMPLEXITY_THRESHOLD, uuids, requests,
                 admin_calls, CACHE_ENABLED, USE_GROK, last>>

StoreNext ==
  \/ SaveConversation
  \/ ReadHistory
  \/ ReadGlobalStats
  \/ CleanupOldConversations
  \/ StoreTick

StoreSpec == StoreInit /\ [][StoreNext]_vars

\* The rows of an engine's table saved under a session id, by id.
RowOfId(db, id) ==
  CHOOSE r \in {store[db].rows[i] : i \in 1..Len(store[db].rows)} : r.id = id

\* C17: under either engine the history of a session holds only records saved
\* under that session, at most limit of them, and a record saved later (it has
\* the greater id) comes before every record saved earlier, also when their
\* timestamps are equal.
C17_HistoryNewestFirst ==
  last.op = "history"
    => \A db \in DbTypes :
         LET history == last.result[db].value
         IN  /\ Len(history) <= last.args.limit
             /\ \A i \in 1..Len(history) :
                  RowOfId(db, history[i].id).session_id = last.args.session_id
             /\ \A i, j \in 1..Len(history) : i < j => history[i].id > history[j].id

\* C19: the two engines succeed on the same operations and return the same
\* results.
C19_EnginesInterchangeable ==
  /\ last.result["sqlite"].raised = last.result["postgresql"].raised
  /\ last.result["sqlite"].value = last.result["postgresql"].value

\* A step that is a call of cleanup_old_conversations.
PurgeStep == last'.op = "purge" /\ requests' = requests + 1

\* C35: the retention cleanup removes exactly the records whose timestamp is
\* older than now minus days, leaves every other record as it was, and
\* returns the number of records it removed.
C35_PurgeRemovesOld ==
  [][PurgeStep =>
       \A db \in DbTypes :
         LET date_limit == now - last'.args.days * TicksPerDay
             old == {i \in 1..Len(store[db].rows) :
                       store[db].rows[i].timestamp < date_limit}
         IN  /\ ~last'.result[db].raised
             /\ store'[db].rows =
                  SelectSeq(store[db].rows, LAMBDA r : ~(r.timestamp < date_limit))
             /\ last'.result[db].value = Cardinality(old)]_vars

\* C39: get_global_stats reports the minimum, the average and the maximum of
\* the response times of the window's records that have one, in thousandths
\* of a second, and reports them as absent only when the window holds no such
\* record; with a record of a cache hit (response time 0) the minimum is 0.
C39_ResponseTimesReported ==
  last.op = "stats"
    => \A db \in DbTypes :
         LET rows == window_rows(store[db], last.at - last.args.days * TicksPerDay)
             timed == {i \in 1..Len(rows) : rows[i].response_time # NullTime}
             times == {rows[i].response_time : i \in timed}
             total == SumOver([i \in 1..Len(rows) |-> rows[i].response_time], timed)
             reported == last.result[db].value.response_time
         IN  IF timed = {}
             THEN reported = [avg |-> NullTime, min |-> NullTime, max |-> NullTime]
             ELSE /\ reported.min = SetMin(times) * 1000
                  /\ reported.max = SetMax(times) * 1000
                  /\ reported.avg = RoundRatio(total * 1000, Cardinality(timed))

(***************************************************************************)
(* The scorer on its own: texts are scored by ComplexityAnalyzer.analyze   *)
(* and routed by IntelligentAgent.route, in any order.  requests counts    *)
(* the operations, stats holds the router's counters, last holds the last  *)
(* result and the results observed so far.                                 *)
(***************************************************************************)

\* The most scoring operations in one run of the model.
MaxScorings == 3

\* n copies of a text, one after the other.
RECURSIVE Repeat(_, _)
Repeat(s, n) == IF n = 0 THEN <<>> ELSE s \o Repeat(s, n - 1)

\* The texts scored: the absent, empty and blank ones; a short one; twenty
\* words; thirty words; six technical words; six sentences with
\* punctuation; a question with negations, conditions and uncertainties.
ScoredTexts ==
  InvalidTexts
  \cup {TextRh,
        Repeat(<<"a"," ">>, 20),
        Repeat(<<"a"," ">>, 30),
        Repeat(<<"r","h"," ">>, 6),
        Repeat(<<"a",".",","," ">>, 6),
        <<"?"," ">> \o Repeat(<<"n","e"," ","s","i"," ","s","e","m","b","l","e"," ">>, 2)}

\* The texts routed: an absent one, a blank one, a short one, six technical
\* words.
RoutedTexts == {None, <<" ">>, TextRh, Repeat(<<"r","h"," ">>, 6)}

ScoringInit ==
  /\ cache = <<>>
  /\ store = [rows |-> <<>>, last_id |-> 0]
  /\ stats = InitialStats
  /\ COMPLEXITY_THRESHOLD = DefaultThreshold
  /\ now = 0
  /\ uuids = 0
  /\ requests = 0
  /\ admin_calls = 0
  /\ CACHE_ENABLED = TRUE
  /\ USE_GROK = FALSE
  /\ inflight = <<>>
  /\ last = [op |-> "init", text |-> None, raised |-> FALSE, model |-> "",
             observed |-> <<>>]

\* The state after an operation returned the analysis of the text, and the
\* model chosen for it if it was routed.
Scored(op, text, analysis, model) ==
  /\ last' = [op |-> op, text |-> text, raised |-> FALSE, model |-> model,
              observed |-> Append(last.observed,
                                  [op |-> op, text |-> text,
                                   score |-> analysis.score,
                                   details |-> analysis.details])]
  /\ requests' = requests + 1

\* analyzer.analyze(text)
ScoreText ==
  /\ requests < MaxScorings
  /\ \E text \in ScoredTexts : Scored("analyze", text, analyze(text), "")
  /\ UNCHANGED <<inflight, cache, store, stats, COMPLEXITY_THRESHOLD, now, uuids, admin_calls,
                 CACHE_ENABLED, USE_GROK>>

\* The state after agent.route returned routed for the text, or raised.
Routed(text, routed) ==
  /\ stats' = routed.stats
  /\ IF routed.raised
     THEN /\ last' = [op |-> "route", text |-> text, raised |-> TRUE, model |-> "",
                      observed |-> last.observed]
          /\ requests' = requests + 1
     ELSE Scored("route", text,
                 [score |-> routed.result.complexity_score,
                  details |-> routed.result.details],
                 routed.result.model)

\* agent.route(text)
RouteText ==
  /\ requests < MaxScorings
  /\ \E text \in RoutedTexts : Routed(text, route(text, stats))
  /\ UNCHANGED <<inflight, cache, store, COMPLEXITY_THRESHOLD, now, uuids, admin_calls,
                 CACHE_ENABLED, USE_GROK>>

ScoringNext ==
  \/ ScoreText
  \/ RouteText

ScoringSpec == ScoringInit /\ [][ScoringNext]_vars

\* The four sub-scores of a breakdown (the length score is in hundredths).
HasSubScores(details) ==
  /\ {"length_score", "vocabulary_score", "structure_score", "ambiguity_score"}
       \subseteq DOMAIN details
  /\ details.length_score \in 0..10000
  /\ details.vocabulary_score \in 0..100
  /\ details.structure_score \in 0..100
  /\ details.ambiguity_score \in 0..100

\* The same text was given the same score and breakdown every time.
SameTextSameResult ==
  \A i, j \in 1..Len(last.observed) :
    last.observed[i].text = last.observed[j].text
      => /\ last.observed[i].score = last.observed[j].score
         /\ last.observed[i].details = last.observed[j].details

\* C20 as stated: every text is given a score in 0..100 and four sub-scores in
\* 0..100, the same ones every time.
C20_AsStated ==
  /\ \A i \in 1..Len(last.observed) :
       /\ last.observed[i].score \in 0..100
       /\ HasSubScores(last.observed[i].details)
  /\ SameTextSameResult

\* C20: every text is given an integer score in 0..100, the same score and
\* breakdown every time it is scored or routed, whatever was scored or routed
\* in between; a text that is not blank has four sub-scores in 0..100, a blank
\* or absent text has the score 0 and the empty-text marker in their place.
C20_ScoreInRangeSameEveryTime ==
  /\ \A i \in 1..Len(last.observed) :
       /\ last.observed[i].score \in 0..100
       /\ IF Blank(last.observed[i].text)
          THEN /\ last.observed[i].score = 0
               /\ last.observed[i].details = [error |-> "Texte vide"]
          ELSE HasSubScores(last.observed[i].details)
  /\ SameTextSameResult

\* A text whose vocabulary score is capped at 100 was scored, another text was
\* routed, and the first was scored again.
C20_Witness ==
  /\ Len(last.observed) = 3
  /\ last.observed[1].text = last.observed[3].text
  /\ last.observed[2].text # last.observed[1].text
  /\ last.observed[2].op = "route"
  /\ ~Blank(last.observed[1].text)
  /\ last.observed[1].details.vocabulary_score = 100
  /\ last.observed[3].details = last.observed[1].details
  /\ last.observed[3].score = last.observed[1].score

\* C22: scoring an absent, empty or blank text returns the score 0 and the
\* empty-text marker, and routing such a text returns a decision; neither
\* raises.
C22_BlankTextScoredAndRouted ==
  (last.op \in {"analyze", "route"} /\ Blank(last.text))
    => /\ ~last.raised
       /\ last.observed[Len(last.observed)].score = 0
       /\ last.observed[Len(last.observed)].details = [error |-> "Texte vide"]
       /\ last.op = "route" => last.model \in {"distilbert", "bert-base", "gpt-llm"}

(***************************************************************************)
(* The vocabulary sub-score on its own: a text is scored by                *)
(* ComplexityAnalyzer.analyze, then scored again with a keyword of         *)
(* TECHNICAL_KEYWORDS appended to it.  requests counts the keywords        *)
(* appended, last holds the text, its vocabulary sub-score and the         *)
(* sub-score it had before the keyword was appended.                       *)
(***************************************************************************)

\* The most keywords appended to one text in one run of the model.
MaxAppends == 1

\* The texts scored first: a plain word, a technical word, a technical word
\* among plain ones, three technical words among five.
VocabularyTexts ==
  {<<"a">>,
   TextRh,
   <<"r","h"," ","a">>,
   <<"r","h"," ","r","h"," ","r","h"," ","a"," ","a">>}

\* What may stand between the text and the appended keyword.
Separators == {<<>>, <<" ">>}

VocabularyInit ==
  /\ cache = <<>>
  /\ store = [rows |-> <<>>, last_id |-> 0]
  /\ stats = InitialStats
  /\ COMPLEXITY_THRESHOLD = DefaultThreshold
  /\ now = 0
  /\ uuids = 0
  /\ requests = 0
  /\ admin_calls = 0
  /\ CACHE_ENABLED = TRUE
  /\ USE_GROK = FALSE
  /\ inflight = <<>>
  /\ last = [op |-> "init", text |-> None, keyword |-> None,
             before |-> 0, vocabulary_score |-> 0]

\* analyzer.analyze(text)["details"]["vocabulary_score"] for a first text
ScoreVocabulary ==
  /\ last.op = "init"
  /\ \E text \in VocabularyTexts :
       last' = [op |-> "score", text |-> text, keyword |-> None,
                before |-> 0,
                vocabulary_score |-> analyze(text).details.vocabulary_score]
  /\ UNCHANGED <<inflight, cache, store, stats, COMPLEXITY_THRESHOLD, now, uuids, requests,
                 admin_calls, CACHE_ENABLED, USE_GROK>>

\* analyzer.analyze(text + keyword)["details"]["vocabulary_score"] for the
\* text scored last
AppendKeyword ==
  /\ last.op # "init"
  /\ requests < MaxAppends
  /\ \E keyword \in TECHNICAL_KEYWORDS, sep \in Separators :
       LET text == last.text \o sep \o keyword
       IN  last' = [op |-> "append", text |-> text, keyword |-> keyword,
                    before |-> last.vocabulary_score,
                    vocabulary_score |-> analyze(text).details.vocabulary_score]
  /\ requests' = requests + 1
  /\ UNCHANGED <<inflight, cache, store, stats, COMPLEXITY_THRESHOLD, now, uuids,
                 admin_calls, CACHE_ENABLED, USE_GROK>>

VocabularyNext ==
  \/ ScoreVocabulary
  \/ AppendKeyword

VocabularySpec == VocabularyInit /\ [][VocabularyNext]_vars

\* C21: a text with a keyword of the technical keyword set appended to it has
\* a vocabulary sub-score at least as high as the text had without it.
C21_VocabularyMonotone ==
  last.op = "append" => last.vocabulary_score >= last.before

(***************************************************************************)
(* The service under concurrent requests.  The handlers are coroutines of  *)
(* one event loop: a handler runs alone from one await to the next, and    *)
(* predict_with_routing awaits twice, on the classifier (_call_model) and  *)
(* on the explanation (generate_grok_response).  inflight maps a slot to   *)
(* the handler it runs: where it waits and its local variables.  requests  *)
(* counts the requests begun, last holds the last step: the response of a  *)
(* request that ended, the payload its lookup returned (got), and the      *)
(* payloads given to cache_manager.set so far (sets).                      *)
(***************************************************************************)

\* The handlers that can be waiting at once, and the requests of one run.
MaxInflight == 2

MaxServed == 3

Slots == 1..MaxInflight

\* One text, asked for by two sessions and by a caller that names none.
ConcurrentRequests ==
  [text : {TextRh}, force_model : {None},
   session_id : {None, <<"s","1">>, <<"s","2">>}, conversation_title : Titles]

\* The classifier answers, answers without probabilities, or fails; the
\* explanation service answers; the store can be reached.
ConcurrentEnvs ==
  [clf : {ClassifierAnswers, ClassifierAnswersBare} \cup ClassifierFailures,
   grok : {GrokAnswers}, db_reachable : {TRUE}, elapsed : {1}]

\* A slot that runs no handler.
IdleSlot ==
  [pc |-> "idle", request |-> NoData, session_id |-> None, env |-> NoData,
   routed |-> NoData, threshold |-> 0, use_cache |-> FALSE]

ConcurrentInit ==
  /\ cache = <<>>
  /\ store = [rows |-> <<>>, last_id |-> 0]
  /\ stats = InitialStats
  /\ COMPLEXITY_THRESHOLD = DefaultThreshold
  /\ now = 0
  /\ uuids = 0
  /\ requests = 0
  /\ admin_calls = 0
  /\ CACHE_ENABLED = TRUE
  /\ USE_GROK = TRUE
  /\ inflight = [i \in Slots |-> IdleSlot]
  /\ last = [op |-> "init", slot |-> 0, request |-> NoData, session_id |-> None,
             resp |-> NoData, steps |-> <<>>, got |-> NoData, sets |-> {}]

\* The request of the slot has ended with the response out.resp.
Ended(i, request, session_id, out, steps, got, sets) ==
  /\ inflight' = [inflight EXCEPT ![i] = IdleSlot]
  /\ last' = [op |-> "predict", slot |-> i, request |-> request,
              session_id |-> session_id, resp |-> out.resp, steps |-> steps,
              got |-> got, sets |-> sets]

\* POST /predict, from the start of the handler to its first await: the
\* session id, the lookup and, on a hit, the whole branch (it awaits nothing);
\* on a miss the routing, up to the call of the classifier.
Begin(i) ==
  /\ inflight[i].pc = "idle"
  /\ requests < MaxServed
  /\ \E request \in ConcurrentRequests, env \in ConcurrentEnvs :
       LET generated == ~Truthy(request.session_id)
           session_id == IF generated THEN uuid4(uuids + 1) ELSE request.session_id
           use_cache == cache_consulted(CACHE_ENABLED, request)
           lookup == IF use_cache
                     THEN CacheManager_get(cache, request.text, None, now)
                     ELSE [hit |-> FALSE, data |-> NoData, cache |-> cache]
           hit == predict_cache_hit(request, session_id, lookup, store, stats, now,
                                    uuids, env)
           routed == route(request.text, stats)
       IN  /\ uuids' = IF generated THEN uuids + 1 ELSE uuids
           /\ IF lookup.hit
              THEN /\ cache' = hit.cache
                   /\ store' = hit.store
                   /\ stats' = stats
                   /\ Ended(i, request, session_id, hit,
                            <<"CacheLookup">> \o hit.steps, lookup.data, last.sets)
              ELSE /\ cache' = lookup.cache
                   /\ store' = store
                   /\ stats' = routed.stats
                   /\ inflight' =
                        [inflight EXCEPT ![i] =
                           [pc |-> "classify", request |-> request,
                            session_id |-> session_id, env |-> env,
                            routed |-> routed, threshold |-> COMPLEXITY_THRESHOLD,
                            use_cache |-> use_cache]]
                   /\ last' = [last EXCEPT !.op = "begin", !.slot = i,
                                           !.request = request,
                                           !.session_id = session_id,
                                           !.resp = NoData, !.steps = <<>>,
                                           !.got = NoData]
  /\ requests' = requests + 1
  /\ UNCHANGED <<COMPLEXITY_THRESHOLD, now, admin_calls, CACHE_ENABLED, USE_GROK>>

\* The rest of the handler of the slot as it would run from here: classify,
\* explain, cache, persist, with the cache, the log and the clock of now and
\* the routing and the threshold the handler read before it waited.
Rest(i) ==
  predict_routed(inflight[i].request, inflight[i].session_id,
                 inflight[i].use_cache, CACHE_TTL, USE_GROK, cache, store,
                 inflight[i].threshold, now, uuids, inflight[i].env,
                 inflight[i].routed)

\* await _call_model(...) returns or raises: the handler ends with the
\* HTTPException, or goes on to the explanation.
Classified(i) ==
  /\ inflight[i].pc = "classify"
  /\ IF Rest(i).steps = <<"Route", "ClassifyCall">>
     THEN Ended(i, inflight[i].request, inflight[i].session_id, Rest(i),
                Rest(i).steps, NoData, last.sets)
     ELSE /\ inflight' = [inflight EXCEPT ![i].pc = "explain"]
          /\ last' = [last EXCEPT !.op = "classified", !.slot = i,
                                  !.resp = NoData, !.steps = <<>>,
                                  !.got = NoData]
  /\ UNCHANGED <<cache, store, stats, COMPLEXITY_THRESHOLD, now, uuids, requests,
                 admin_calls, CACHE_ENABLED, USE_GROK>>

\* await generate_grok_response(...) returns or raises: the handler builds
\* the response, stores it in the cache, saves the conversation and returns.
Explained(i) ==
  /\ inflight[i].pc = "explain"
  /\ LET out == Rest(i)
         key == generate_key(inflight[i].request.text, None)
         stored == \E k \in 1..Len(out.steps) : out.steps[k] = "CacheStore"
     IN  /\ cache' = out.cache
         /\ store' = out.store
         /\ Ended(i, inflight[i].request, inflight[i].session_id, out, out.steps,
                  NoData,
                  IF stored THEN last.sets \cup {out.cache[key].data}
                  ELSE last.sets)
  /\ UNCHANGED <<stats, COMPLEXITY_THRESHOLD, now, uuids, requests, admin_calls,
                 CACHE_ENABLED, USE_GROK>>

\* POST /cache/clear and POST /cache/cleanup between the steps of the
\* requests.
ConcurrentClear ==
  /\ admin_calls < MaxAdminCalls
  /\ cache' = CacheManager_clear(cache).cache
  /\ last' = [last EXCEPT !.op = "clear", !.resp = NoData, !.steps = <<>>,
                          !.got = NoData]
  /\ admin_calls' = admin_calls + 1
  /\ UNCHANGED <<inflight, store, stats, COMPLEXITY_THRESHOLD, now, uuids, requests,
                 CACHE_ENABLED, USE_GROK>>

ConcurrentCleanup ==
  /\ admin_calls < MaxAdminCalls
  /\ cache' = CacheManager_cleanup_expired(cache, now).cache
  /\ last' = [last EXCEPT !.op = "cleanup", !.resp = NoData, !.steps = <<>>,
                          !.got = NoData]
  /\ admin_calls' = admin_calls + 1
  /\ UNCHANGED <<inflight, store, stats, COMPLEXITY_THRESHOLD, now, uuids, requests,
                 CACHE_ENABLED, USE_GROK>>

ConcurrentNext ==
  \/ \E i \in Slots : Begin(i)
  \/ \E i \in Slots : Classified(i)
  \/ \E i \in Slots : Explained(i)
  \/ ConcurrentClear
  \/ ConcurrentCleanup
  \/ Tick

ConcurrentSpec == ConcurrentInit /\ [][ConcurrentNext]_vars

\* C33: every payload a lookup returns is one of the payloads given whole to
\* an earlier cache_manager.set, under every interleaving of the requests
\* with the clearing and the cleanup of the cache.
C33_GetReturnsWhatWasSet ==
  (last.op = "predict" /\ last.got # NoData) => last.got \in last.sets

\* C38: under every interleaving, a request that succeeds is answered with
\* its own session id (the one it sent, or the one generated for it) and the
\* record it causes is saved under that session id.
C38_OwnSessionId ==
  (last.op = "predict" /\ last.resp.status = 200)
    => /\ last.resp.payload.session_id = last.session_id
       /\ Truthy(last.request.session_id)
            => last.session_id = last.request.session_id
       /\ ~Truthy(last.request.session_id)
            => \E n \in 1..uuids : last.session_id = uuid4(n)
       /\ Len(store.rows) > 0
       /\ store.rows[Len(store.rows)].session_id = last.session_id

\* A hit served from a payload another session stored, while another
\* request waits for its classifier.
C38_Witness ==
  /\ last.op = "predict"
  /\ last.resp.status = 200
  /\ last.got # NoData
  /\ last.got.session_id # last.session_id
  /\ \E i \in Slots : inflight[i].pc = "classify"

\* The two downstream calls are made with a timeout (30 s for the classifier,
\* 15 s for the explanation), so a handler that waits on one of them is
\* resumed: each waiting handler takes its next step.
FairConcurrentSpec ==
  /\ ConcurrentSpec
  /\ \A i \in Slots : WF_vars(Classified(i)) /\ WF_vars(Explained(i))

\* The outcomes of a predict request that passed validation: success, client
\* error, upstream timeout, upstream error, upstream unreachable.
TerminalOutcomes == {"ok", "unknown_model", "timeout", "upstream_error", "unreachable"}

\* Every request that was begun ends.
C34_Terminates ==
  \A i \in Slots : (inflight[i].pc # "idle") ~> (inflight[i].pc = "idle")

\* C34: every accepted predict request ends, never waiting forever on a
\* downstream call, with one of the outcomes: success, client error, upstream
\* timeout, upstream error, upstream unreachable.
C34_OneTerminalOutcome ==
  /\ C34_Terminates
  /\ [](last.op = "predict" => last.resp.kind \in TerminalOutcomes)

====
